---- MODULE Spec2Model ----
(***************************************************************************)
(* A model of go-corelibs/enjinql: the relationship graph and its join     *)
(* planner (gSourceGraph), the engine facade's locking and closing         *)
(* (enjinql) and the compilation of a parsed Syntax to SQL.                *)
(***************************************************************************)
EXTENDS Integers, Sequences, FiniteSets, TLC

(***************************************************************************)
(* Bounds                                                                  *)
(***************************************************************************)
\* number of sources a configuration declares
MaxNodes == 4
\* longest list of required sources handed to the planner
MaxRequired == 3
\* number of threads calling one engine
MaxThreads == 2
\* number of sources in the configuration of the engine the threads share
MaxSources == 2
\* number of sources declared before statements are compiled
MaxCompileSources == 2
\* most keys a LOOKUP statement enumerates
MaxKeys == 2
\* largest OFFSET or LIMIT a statement carries
MaxInt == 1

\* source names, in the order the configuration declares them; the first
\* declared source is the primary source
SourceNames == <<"page", "word", "tag", "word_tags", "title", "letter">>

Names == {SourceNames[i] : i \in 1..MaxNodes}

\* the key of the surrogate id column of every source
SourceIdKey == "id"

Range(s) == {s[i] : i \in 1..Len(s)}

(***************************************************************************)
(* State                                                                   *)
(***************************************************************************)
VARIABLES
    primary,    \* gSourceGraph.primary
    nodes,      \* gSourceGraph.nodes, in the order added
    lookup,     \* gSourceGraph.lookup: name -> node
    graphV,     \* vertices held by gSourceGraph.graph
    graphE,     \* edges held by gSourceGraph.graph, each tagged with its join
    required,   \* the argument list of the last plan call
    result,     \* what the last plan call returned
    result2,    \* what a repeated plan call with the same arguments returned
    closed,     \* enjinql.closed
    readers,    \* enjinql.m: read locks held, by thread
    writer,     \* enjinql.m: the thread inside Lock, 0 when none
    writerHeld, \* enjinql.m: whether that thread holds the write lock
    th,         \* every thread's call: method, position, return value
    dbCloseCalls,   \* how many times Close was called on the driver handle
    closeReturned,  \* whether a Close call on the engine has returned
    stmt,       \* the statement text handed to Parse and ToSQL, as it parses
    syntax,     \* the *Syntax that Parse returned, as ParsedToSql leaves it
    sqlCalls,   \* what the successive ParsedToSql calls on syntax returned
    toSqlCalls, \* what the successive ToSQL calls on the statement returned
    tableColumns,    \* cSource.getColumnConfigs: source name -> its column names
    trunkValid, \* cSqlTrunkTX: whether c.tx is not nil
    txCalls,    \* the Commit and Rollback calls made on the trunk, in order
    execLog,    \* the statements executed on the transaction, in order
    dml,        \* what the last Insert or Delete call was given and returned
    opt,        \* New: the options given and the indexes of each source
    ddlPc,      \* New: where enjinql.init stands
    ddlLog,     \* the DDL statements issued to the database, in order
    dbObjects,  \* the tables and indexes the database holds, in order made
    newRet,     \* what New returned
    checked,    \* the Syntax last handed to Validate and what it returned
    input,      \* the EQL text last handed to ParseSyntax
    parsed,     \* what ParseSyntax returned for input
    printed,    \* what String returned for the parsed Syntax
    reparsed,   \* what ParseSyntax returned for printed
    cfgCall,    \* the last call that validates a Config and what it returned
    condCall,   \* the last constraint compiled by ToSQL and what it returned
    declared,   \* cSources.order: the SourceConfig of every source added
    addRet,     \* the last cSources.addSource call and what it returned
    nameCall    \* the last names given to formal and what it and alias returned

graphVars == <<primary, nodes, lookup, graphV, graphE>>
planVars == <<required, result, result2>>
engineVars == <<closed, readers, writer, writerHeld, th, dbCloseCalls, closeReturned>>
compileVars == <<stmt, syntax, sqlCalls, toSqlCalls>>
vars == <<primary, nodes, lookup, graphV, graphE, required, result, result2,
          closed, readers, writer, writerHeld, th, dbCloseCalls, closeReturned,
          stmt, syntax, sqlCalls, toSqlCalls, tableColumns,
          trunkValid, txCalls, execLog, dml,
          opt, ddlPc, ddlLog, dbObjects, newRet,
          checked, input, parsed, printed, reparsed, cfgCall, condCall,
          declared, addRet, nameCall>>
txVars == <<trunkValid, txCalls, execLog, dml>>
ddlVars == <<opt, ddlPc, ddlLog, dbObjects, newRet>>
\* the state of the parts added after the planner, the engine and the compiler
syntaxVars == <<checked, input, parsed, printed, reparsed>>
\* the state of the calls of pure functions
moreVars == <<condCall, declared, addRet, nameCall>>
laterVars == <<txVars, ddlVars, syntaxVars, cfgCall, moreVars>>

(***************************************************************************)
(* gSourceTableKey, gSourceJoin, gSourceNode                               *)
(***************************************************************************)
newSourceTableKey(table, key) == [table |-> table, key |-> key]

newSourceJoin(table, key, other) ==
    [table |-> table, this |-> newSourceTableKey(table, key), other |-> other]

\* a nil *gSourceJoin
NilJoin == [table |-> "", this |-> newSourceTableKey("", ""),
            other |-> newSourceTableKey("", "")]

\* the node cSources.addSource builds for a source with the given parent
\* ("" when it has none) and the given set of linked sources; a linked value
\* that names the primary source records no link
NewNode(name, parent, linked, prim) ==
    [name |-> name,
     parent |-> IF parent = "" THEN NilJoin
                ELSE newSourceJoin(name, parent \o "_" \o SourceIdKey,
                                   newSourceTableKey(parent, SourceIdKey)),
     link |-> [l \in {x \in linked : x # prim} |->
                  newSourceJoin(l, SourceIdKey,
                                newSourceTableKey(name, l \o "_" \o SourceIdKey))]]

isData(node) == ~(node.parent # NilJoin \/ DOMAIN node.link # {})

(***************************************************************************)
(* The graph library as gSourceGraph uses it: graph.New without the        *)
(* Directed trait builds an undirected graph, so an edge is found and      *)
(* walked from either end.                                                 *)
(***************************************************************************)
HasEdge(E, a, b) ==
    \E e \in E : (e.source = a /\ e.target = b) \/ (e.source = b /\ e.target = a)

Edge(E, a, b) ==
    CHOOSE e \in E : (e.source = a /\ e.target = b) \/ (e.source = b /\ e.target = a)

\* _addEdgeUnsafe
AddEdgeUnsafe(E, a, b, join) == E \cup {[source |-> a, target |-> b, data |-> join]}

\* _addVertexUnsafe: the edges a node brings, parent -> node and node -> link
AddVertexEdges(E, node) ==
    LET withParent == IF node.parent # NilJoin
                      THEN AddEdgeUnsafe(E, node.parent.other.table, node.name, node.parent)
                      ELSE E
    IN withParent \cup {[source |-> node.name, target |-> node.link[l].table,
                         data |-> node.link[l]] : l \in DOMAIN node.link}

Adjacent(E, v) == {u \in graphV : u # v /\ HasEdge(E, u, v)}

\* vertices at each distance from start: Levels(...)[d+1] is the set at
\* distance d
RECURSIVE Levels(_, _, _)
Levels(E, seen, frontier) ==
    IF frontier = {} THEN <<>>
    ELSE LET next == (UNION {Adjacent(E, v) : v \in frontier}) \ (seen \cup frontier)
         IN <<frontier>> \o Levels(E, seen \cup frontier, next)

Dist(E, start, v) ==
    LET lv == Levels(E, {}, {start})
    IN IF \E d \in 1..Len(lv) : v \in lv[d]
       THEN (CHOOSE d \in 1..Len(lv) : v \in lv[d]) - 1
       ELSE -1

\* graph.ShortestPath: Dijkstra over uniform weights. Vertices of equal
\* weight are popped in an order set by Go's map iteration, so any one of
\* the shortest paths may be returned; none exists when end is unreachable.
RECURSIVE PathsTo(_, _, _)
PathsTo(E, start, v) ==
    IF v = start THEN {<<start>>}
    ELSE LET d == Dist(E, start, v)
         IN UNION {{Append(p, v) : p \in PathsTo(E, start, u)} :
                     u \in {w \in Adjacent(E, v) : Dist(E, start, w) = d - 1}}

ShortestPaths(E, start, end) ==
    IF start \notin graphV \/ end \notin graphV \/ Dist(E, start, end) < 0
    THEN {}
    ELSE PathsTo(E, start, end)

(***************************************************************************)
(* slices.StackUnique                                                      *)
(***************************************************************************)
RECURSIVE NewStackUnique(_)
NewStackUnique(s) ==
    IF s = <<>> THEN <<>>
    ELSE LET init == NewStackUnique(SubSeq(s, 1, Len(s) - 1))
             last == s[Len(s)]
         IN IF last \in Range(init) THEN init ELSE Append(init, last)

Prune(s, v) == SelectSeq(s, LAMBDA x : x # v)

First(s) == IF s = <<>> THEN "" ELSE Head(s)

Unshift(s) == IF s = <<>> THEN <<>> ELSE Tail(s)

(***************************************************************************)
(* gSourcePlan                                                             *)
(***************************************************************************)
\* the errors the program returns, each by its name without the Err prefix
Err ==
    [Circular |-> "circular dependency cycle",
     PlanSourceNotFound |-> "source not found",
     NoTop |-> "failed to find a top table",
     Search |-> "error searching: target not reachable",
     NotEnough |-> "not enough constraints to resolve a plan",
     ConnDone |-> "sql.ErrConnDone",
     Other |-> "error",
     MismatchQuery |-> "InvalidSyntax: MismatchQuery",
     MismatchLookup |-> "InvalidSyntax: MismatchLookup",
     CountKeys |-> "InvalidSyntax: COUNT requires exactly one source key",
     DistinctKeys |-> "InvalidSyntax: DISTINCT requires exactly one source key",
     NegativeOffset |-> "InvalidSyntax: NegativeOffset",
     NegativeLimit |-> "InvalidSyntax: NegativeLimit",
     InvalidInOp |-> "InvalidSyntax: InvalidInOp",
     MissingOperator |-> "InvalidSyntax: MissingOperator",
     MissingRightSide |-> "InvalidSyntax: MissingRightSide",
     TableNotFound |-> "TableNotFound",
     ColumnNotFound |-> "ColumnNotFound",
     QueryRequiresStub |-> "QueryRequiresStub",
     SourceNotFound |-> "source not found",
     InsertNoValues |-> "insert row error: at least the first column value is required",
     InsertTooMany |-> "insert row error: too many values given",
     InsertBuild |-> "insert row error: builder",
     InsertExec |-> "insert row error: exec",
     DeleteInvalidID |-> "delete rows error: row identifiers must be greater than zero",
     DeleteExec |-> "delete rows error: exec",
     NilTx |-> "panic: nil *sql.Tx",
     Driver |-> "driver error",
     Begin |-> "begin error",
     CreateTableSQL |-> "error building create table sql",
     CreateTable |-> "error creating table sql",
     CreateIndexSQL |-> "error building create index sql",
     CreateIndex |-> "error creating index sql",
     Commit |-> "error committing create table changes",
     CountContext |-> "InvalidSyntax: COUNT requires exactly one context key",
     DistinctContext |-> "InvalidSyntax: DISTINCT requires exactly one context key",
     InvalidJSON |-> "invalid json data",
     NoSources |-> "InvalidConfig: at least one source is required",
     NoSourceValues |-> "InvalidConfig: at least one source value is required",
     ParentNotFound |-> "InvalidConfig: parent not found",
     NotSnakeCased |-> "InvalidConfig: all names and keys must be snake_cased",
     UnnamedSource |-> "InvalidConfig: unnamed source",
     EmptySourceValue |-> "InvalidConfig: empty source value",
     EmptySourceValueKey |-> "InvalidConfig: source value key is empty",
     SourceExists |-> "add source error: source exists already",
     ParentSourceNotFound |-> "add source error: parent soruce not found",
     AddEdge |-> "add source error: error adding edge",
     UnknownKey |-> "add source error: received unknown key",
     OpStringRequired |-> "InvalidSyntax: operator requires a string argument"]

\* the value of (plan, err) before any call
NotCalled ==
    [called |-> FALSE, nil |-> TRUE, top |-> "", topNote |-> "",
     joins |-> <<>>, require |-> <<>>, err |-> ""]

\* a return with a nil plan and an error
Fail(err) ==
    [called |-> TRUE, nil |-> TRUE, top |-> "", topNote |-> "",
     joins |-> <<>>, require |-> <<>>, err |-> err]

\* gSourcePlan.Has
Has(top, joins, name) ==
    top = name \/ \E i \in 1..Len(joins) : joins[i].table = name

\* gSourcePlan.add
add(top, joins, join) ==
    IF ~Has(top, joins, join.table) THEN Append(joins, join) ELSE joins

(***************************************************************************)
(* gSourceGraph                                                            *)
(***************************************************************************)
\* gSourceGraph.validate: Kahn's algorithm over the parent and link
\* dependencies of every node; FALSE when a cycle remains
RECURSIVE Resolves(_)
Resolves(pending) ==
    IF DOMAIN pending = {} THEN TRUE
    ELSE LET empties == {n \in DOMAIN pending : pending[n] = {}}
         IN IF empties = {} THEN FALSE
            ELSE Resolves([n \in DOMAIN pending \ empties |-> pending[n] \ empties])

validate ==
    Resolves([n \in {nodes[i].name : i \in 1..Len(nodes)} |->
                (IF lookup[n].parent # NilJoin
                 THEN {lookup[n].parent.other.table} ELSE {})
                \cup DOMAIN lookup[n].link])

\* gSourceGraph.search
search(start, end) == ShortestPaths(graphE, start, end)

\* gSourceGraph.planPrimaryTopsUnsafe
planPrimaryTopsUnsafe(tops, parents, sources) ==
    IF primary \in Range(tops)
    THEN [tops |-> Prune(tops, primary), sources |-> Prune(sources, primary),
          top |-> primary]
    ELSE IF primary \in Range(parents)
    THEN [tops |-> Prune(tops, primary), sources |-> Prune(sources, primary),
          top |-> primary]
    ELSE [tops |-> tops, sources |-> sources, top |-> ""]

\* the required data sources, in the order required
planTops(pending) == SelectSeq(pending, LAMBDA s : isData(lookup[s]))

\* the parents of the required sources, each once, in the order required
planParents(pending) ==
    LET parented == SelectSeq(pending, LAMBDA s : lookup[s].parent # NilJoin)
    IN NewStackUnique([i \in 1..Len(parented) |->
                          lookup[parented[i]].parent.other.table])

\* planTop without the shared-parent case
planTop_NoSharedParent(pending) ==
    LET tops == planTops(pending)
        parents == planParents(pending)
        p == planPrimaryTopsUnsafe(tops, parents, pending)
    IN IF p.top = ""
       THEN IF Len(tops) = 0
            THEN [top |-> First(p.sources), topNote |-> "first required",
                  pending |-> Prune(Unshift(p.sources), First(p.sources))]
            ELSE [top |-> First(p.tops), topNote |-> "first required",
                  pending |-> Prune(p.sources, First(p.tops))]
       ELSE [top |-> p.top, topNote |-> "primary source", pending |-> p.sources]

\* gSourceGraph.plan, the choice of the top table for two or more sources
\* (or none): the top, its note and the sources still pending
planTop(pending) ==
    LET tops == planTops(pending)
        parents == planParents(pending)
        p == planPrimaryTopsUnsafe(tops, parents, pending)
    IN IF Len(tops) = 0
       THEN IF Len(parents) = 1
            THEN [top |-> First(parents), topNote |-> "first parent",
                  pending |-> pending]
            ELSE IF p.top = ""
                 THEN [top |-> First(p.sources), topNote |-> "first required",
                       pending |-> Prune(Unshift(p.sources), First(p.sources))]
                 ELSE [top |-> p.top, topNote |-> "primary source",
                       pending |-> p.sources]
       ELSE IF p.top = ""
            THEN [top |-> First(p.tops), topNote |-> "first required",
                  pending |-> Prune(p.sources, First(p.tops))]
            ELSE [top |-> p.top, topNote |-> "primary source",
                  pending |-> p.sources]

\* gSourceGraph.plan, the walk along one path: the join of every edge whose
\* table the plan does not have yet is appended
RECURSIVE planPath(_, _, _, _)
planPath(top, joins, path, idx) ==
    IF idx > Len(path) THEN joins
    ELSE LET join == Edge(graphE, path[idx - 1], path[idx]).data
         IN planPath(top,
                     IF ~Has(top, joins, join.table) THEN add(top, joins, join)
                     ELSE joins,
                     path, idx + 1)

\* gSourceGraph.plan, the loop over the pending sources: every way the loop
\* can end, as the sources left pending, the joins and the error
RECURSIVE planLoop(_, _, _)
planLoop(top, pending, joins) ==
    IF Len(pending) = 0
    THEN {[pending |-> pending, joins |-> joins, err |-> ""]}
    ELSE LET source == First(pending)
             rest == Unshift(pending)
             paths == search(top, source)
         IN IF paths = {}
            THEN {[pending |-> rest, joins |-> joins, err |-> Err.Search]}
            ELSE UNION {planLoop(top, rest, planPath(top, joins, path, 2)) :
                          path \in paths}

\* gSourceGraph.plan: every (plan, err) a call with these sources can return
plan(req) ==
    LET count == Len(req)
        requiredL == IF count = 0 /\ Len(nodes) > 0
                     THEN Append(req, nodes[1].name) ELSE req
        pending == NewStackUnique(requiredL)
    IN IF ~validate THEN {Fail(Err.Circular)}
       ELSE IF \E i \in 1..Len(pending) : pending[i] \notin DOMAIN lookup
       THEN {Fail(Err.PlanSourceNotFound)}
       ELSE IF count = 1
       THEN {[called |-> TRUE, nil |-> FALSE, top |-> First(pending),
              topNote |-> "only table", joins |-> <<>>,
              require |-> requiredL, err |-> ""]}
       ELSE LET c == planTop(pending)
            IN IF c.top = "" THEN {Fail(Err.NoTop)}
               ELSE {[called |-> TRUE, nil |-> FALSE, top |-> c.top,
                      topNote |-> c.topNote, joins |-> l.joins,
                      require |-> requiredL,
                      err |-> IF l.err # "" THEN l.err
                              ELSE IF Len(l.pending) > 0 THEN Err.NotEnough
                              ELSE ""] :
                       l \in planLoop(c.top, c.pending, <<>>)}

(***************************************************************************)
(* The engine and the threads that call it                                 *)
(***************************************************************************)
Threads == 1..MaxThreads

\* a thread that has made no call yet
Idle ==
    [op |-> "", pc |-> "idle", i |-> 0, after |-> FALSE, touched |-> FALSE,
     ret |-> ""]

\* New not called yet
NoOption == [skipCreateTables |-> FALSE, skipCreateIndexes |-> FALSE,
             indexes |-> <<>>]

\* no Insert or Delete call made yet
NoDml == [op |-> "", name |-> "", args |-> <<>>, err |-> "", executed |-> FALSE]

\* the state after New: an empty relationship graph, no plan made, an open
\* engine with a free lock and no call in progress
Init ==
    /\ primary = ""
    /\ nodes = <<>>
    /\ lookup = <<>>
    /\ graphV = {}
    /\ graphE = {}
    /\ required = <<>>
    /\ result = NotCalled
    /\ result2 = NotCalled
    /\ closed = FALSE
    /\ readers = [t \in Threads |-> 0]
    /\ writer = 0
    /\ writerHeld = FALSE
    /\ th = [t \in Threads |-> Idle]
    /\ dbCloseCalls = 0
    /\ closeReturned = FALSE
    /\ stmt = <<>>
    /\ syntax = <<>>
    /\ sqlCalls = <<>>
    /\ toSqlCalls = <<>>
    /\ tableColumns = <<>>
    /\ trunkValid = TRUE
    /\ txCalls = <<>>
    /\ execLog = <<>>
    /\ dml = NoDml
    /\ opt = NoOption
    /\ ddlPc = [phase |-> "none", i |-> 0, j |-> 0]
    /\ ddlLog = <<>>
    /\ dbObjects = <<>>
    /\ newRet = [returned |-> FALSE, err |-> "", engine |-> FALSE]
    /\ checked = <<>>
    /\ input = <<>>
    /\ parsed = <<>>
    /\ printed = <<>>
    /\ reparsed = <<>>
    /\ cfgCall = <<>>
    /\ condCall = <<>>
    /\ declared = <<>>
    /\ addRet = [called |-> FALSE, sc |-> <<>>, err |-> ""]
    /\ nameCall = <<>>

(***************************************************************************)
(* Operations on the relationship graph                                    *)
(***************************************************************************)
\* cSources.addSource and gSourceGraph.Add: the next declared source joins
\* the graph. Its parent and its linked sources are declared already (the
\* configuration forbids forward references) and no linked source is its
\* parent, so adding its vertex and edges succeeds.
AddSource(parent, linked) ==
    /\ ~result.called
    /\ Len(nodes) < MaxNodes
    /\ LET name == SourceNames[Len(nodes) + 1]
           node == NewNode(name, parent, linked, primary)
       IN /\ name \notin DOMAIN lookup
          /\ parent \notin DOMAIN node.link
          /\ primary' = IF Len(nodes) = 0 THEN name ELSE primary
          /\ lookup' = [n \in DOMAIN lookup \cup {name} |->
                          IF n = name THEN node ELSE lookup[n]]
          /\ nodes' = Append(nodes, node)
          /\ graphV' = graphV \cup {name}
          /\ graphE' = AddVertexEdges(graphE, node)
    /\ UNCHANGED <<planVars, engineVars, compileVars, laterVars>>

\* the lists of required sources: no source twice, as
\* cProcessor.getRequiredSources builds them
RequiredLists ==
    UNION {{s \in [1..n -> Names] : \A i, j \in 1..n : i # j => s[i] # s[j]} :
             n \in 0..MaxRequired}

\* a first call of gSourceGraph.plan
Plan(req) ==
    /\ Len(nodes) > 0
    /\ ~result.called
    /\ \E r \in plan(req) : result' = r
    /\ required' = req
    /\ UNCHANGED <<graphVars, result2, engineVars, compileVars, laterVars>>

\* one more call of gSourceGraph.plan with the same sources
PlanAgain ==
    /\ result.called
    /\ ~result2.called
    /\ \E r \in plan(required) : result2' = r
    /\ UNCHANGED <<graphVars, required, result, engineVars, compileVars, laterVars>>

NextPlan ==
    \/ \E parent \in {""} \cup DOMAIN lookup, linked \in SUBSET DOMAIN lookup :
          AddSource(parent, linked)
    \/ \E req \in RequiredLists : Plan(req)
    \/ PlanAgain

SpecPlan == Init /\ [][NextPlan /\ UNCHANGED tableColumns]_vars

(***************************************************************************)
(* Properties of the planner                                               *)
(***************************************************************************)
\* how many times a source appears in a plan, as its top or as a joined table
Appearances(r, s) ==
    (IF r.top = s THEN 1 ELSE 0)
    + Cardinality({i \in 1..Len(r.joins) : r.joins[i].table = s})

\* a plan returned without error
Planned(r) == r.called /\ ~r.nil /\ r.err = ""

\* C1: in every plan returned without error each required source appears
\* exactly once, as the top or as the joined table of one join, and no table
\* is joined twice
C1_RequiredOnce ==
    Planned(result) =>
        /\ \A s \in Range(result.require) : Appearances(result, s) = 1
        /\ \A i, j \in 1..Len(result.joins) :
              i # j => result.joins[i].table # result.joins[j].table

\* C2: in every plan returned without error each join relates its joined
\* table to the top or to a table joined by an earlier entry
C2_JoinsApplyInOrder ==
    Planned(result) =>
        \A i \in 1..Len(result.joins) :
            /\ result.joins[i].this.table = result.joins[i].table
            /\ \/ result.joins[i].other.table = result.top
               \/ \E j \in 1..(i - 1) :
                     result.joins[j].table = result.joins[i].other.table

\* C3: a repeated call of plan with the same sources on the same graph
\* returns the same top and the same joins in the same order
C3_PlanDeterministic ==
    result2.called => result2 = result

\* the sources connected to s by the edges of the relationship graph
RECURSIVE Connected(_, _)
Connected(seen, frontier) ==
    IF frontier = {} THEN seen
    ELSE Connected(seen \cup frontier,
                   (UNION {Adjacent(graphE, v) : v \in frontier})
                   \ (seen \cup frontier))

Unreachable(r) ==
    \E s \in Range(r.require) : s \notin Connected({}, {r.top})

\* C6: when a required source cannot be reached from the chosen top the
\* planner fails with "not enough constraints to resolve a plan"
C6_UnreachableNotEnough ==
    (result.called /\ result.top # "" /\ Unreachable(result)) =>
        result.err = Err.NotEnough

\* the decision list for the top table of a list of required sources
RequiredData(req) == SelectSeq(req, LAMBDA s : isData(lookup[s]))

RequiredParents(req) ==
    {lookup[s].parent.other.table : s \in {x \in Range(req) : lookup[x].parent # NilJoin}}

DecidedTop(req) ==
    IF Len(req) = 0 THEN primary
    ELSE IF Len(req) = 1 THEN req[1]
    ELSE IF primary \in Range(RequiredData(req)) THEN primary
    ELSE IF primary \in RequiredParents(req) THEN primary
    ELSE IF RequiredData(req) = <<>> /\ Cardinality(RequiredParents(req)) = 1
    THEN CHOOSE parent \in RequiredParents(req) : TRUE
    ELSE IF RequiredData(req) # <<>> THEN RequiredData(req)[1]
    ELSE req[1]

\* C5: the top of every plan follows the decision list, and a plan for
\* exactly one required source has no joins
C5_TopDecisionList ==
    (result.called /\ ~result.nil) =>
        /\ result.top = DecidedTop(required)
        /\ Len(required) = 1 => result.joins = <<>>

\* a plan whose top is the parent shared by the required sources, which is
\* neither the primary source nor itself required
C5_Witness ==
    /\ Planned(result)
    /\ result.topNote = "first parent"
    /\ result.top # primary
    /\ result.top \notin Range(required)
    /\ Len(result.joins) = 2

(***************************************************************************)
(* sync.RWMutex as the engine uses it: a writer inside Lock blocks new     *)
(* readers and waits for the read locks held to be released                *)
(***************************************************************************)
\* RLock returns only while no writer is inside Lock or holds the lock
CanRLock == writer = 0

\* Lock, first half: one writer at a time announces itself
CanLock == writer = 0

\* Lock, second half: the announced writer waits for the readers to leave
CanAcquire(t) == writer = t /\ ~writerHeld /\ \A u \in Threads : readers[u] = 0

Set(t, fields) == th' = [th EXCEPT ![t] = fields]

Return(t, err) == [th[t] EXCEPT !.pc = "returned", !.ret = err]

Goto(t, pc) == [th[t] EXCEPT !.pc = pc]

(***************************************************************************)
(* Operations of the engine, one action per step of a method               *)
(***************************************************************************)
Methods ==
    {"Close", "Ready", "Parse", "ParsedToSql", "Plan", "ToSQL", "Perform",
     "SqlExec", "SqlQuery", "CreateTables", "CreateIndexes"}

\* where each method starts
FirstStep(op) ==
    IF op = "Close" THEN "lock"
    ELSE IF op \in {"Parse", "Plan", "ToSQL"} THEN "parse_rlock"
    ELSE IF op = "ParsedToSql" THEN "p2s_rlock"
    ELSE "ready_rlock"

\* a thread calls a method of the engine
Call(t, op) ==
    /\ th[t].pc \in {"idle", "returned"}
    /\ Set(t, [op |-> op, pc |-> FirstStep(op), i |-> 0,
               after |-> closeReturned, touched |-> FALSE, ret |-> ""])
    /\ UNCHANGED <<closed, readers, writer, writerHeld, dbCloseCalls, closeReturned>>

\* Close: eql.m.Lock() entered
CloseLock(t) ==
    /\ th[t].pc = "lock"
    /\ CanLock
    /\ writer' = t
    /\ writerHeld' = FALSE
    /\ Set(t, Goto(t, "locking"))
    /\ UNCHANGED <<closed, readers, dbCloseCalls, closeReturned>>

\* Close: eql.m.Lock() returns
CloseLocked(t) ==
    /\ th[t].pc = "locking"
    /\ CanAcquire(t)
    /\ writerHeld' = TRUE
    /\ Set(t, Goto(t, "close_body"))
    /\ UNCHANGED <<closed, readers, writer, dbCloseCalls, closeReturned>>

\* Close's body without the test of closed
CloseBody_Unguarded(t) ==
    /\ th[t].pc = "close_body"
    /\ closed' = TRUE
    /\ dbCloseCalls' = dbCloseCalls + 1
    /\ \E err \in {"", Err.Other} :
          Set(t, [Return(t, err) EXCEPT !.touched = TRUE])
    /\ writer' = 0
    /\ writerHeld' = FALSE
    /\ closeReturned' = TRUE
    /\ UNCHANGED readers

\* Close: the body under the write lock, the deferred Unlock and the return
CloseBody(t) ==
    /\ th[t].pc = "close_body"
    /\ IF ~closed
       THEN /\ closed' = TRUE
            /\ dbCloseCalls' = dbCloseCalls + 1
            /\ \E err \in {"", Err.Other} :
                  Set(t, [Return(t, err) EXCEPT !.touched = TRUE])
       ELSE /\ Set(t, Return(t, ""))
            /\ UNCHANGED <<closed, dbCloseCalls>>
    /\ writer' = 0
    /\ writerHeld' = FALSE
    /\ closeReturned' = TRUE
    /\ UNCHANGED readers

\* Ready: eql.m.RLock(), as called by Ready itself, SqlExec, SqlQuery,
\* Perform, CreateTables and CreateIndexes, and by the SqlQuery that Perform
\* calls while it holds its own read lock
ReadyRLock(t) ==
    /\ th[t].pc \in {"ready_rlock", "query_ready_rlock"}
    /\ CanRLock
    /\ readers' = [readers EXCEPT ![t] = @ + 1]
    /\ Set(t, Goto(t, IF th[t].pc = "ready_rlock" THEN "ready_read"
                      ELSE "query_ready_read"))
    /\ UNCHANGED <<closed, writer, writerHeld, dbCloseCalls, closeReturned>>

\* what a method does after its Ready call returned nil
AfterReady(t) ==
    IF th[t].pc = "query_ready_read" THEN Goto(t, "query")
    ELSE IF th[t].op = "Ready" THEN Return(t, "")
    ELSE IF th[t].op = "SqlExec" THEN Goto(t, "exec")
    ELSE IF th[t].op = "SqlQuery" THEN Goto(t, "query")
    ELSE IF th[t].op = "Perform" THEN Goto(t, "parse_rlock")
    ELSE [Goto(t, "ddl") EXCEPT !.i = 1]

\* Ready that returns nil whatever closed is
ReadyRead_IgnoresClosed(t) ==
    /\ th[t].pc \in {"ready_read", "query_ready_read"}
    /\ Set(t, AfterReady(t))
    /\ readers' = [readers EXCEPT ![t] = @ - 1]
    /\ UNCHANGED <<closed, writer, writerHeld, dbCloseCalls, closeReturned>>

\* Ready: the read of closed, the deferred RUnlock and the return. A method
\* that got sql.Err.ConnDone returns it; Perform then also runs its own
\* deferred RUnlock.
ReadyRead(t) ==
    /\ th[t].pc \in {"ready_read", "query_ready_read"}
    /\ IF closed
       THEN /\ Set(t, Return(t, Err.ConnDone))
            /\ readers' = [readers EXCEPT ![t] = 0]
       ELSE /\ Set(t, AfterReady(t))
            /\ readers' = [readers EXCEPT ![t] = @ - 1]
    /\ UNCHANGED <<closed, writer, writerHeld, dbCloseCalls, closeReturned>>

\* Parse: eql.m.RLock()
ParseRLock(t) ==
    /\ th[t].pc = "parse_rlock"
    /\ CanRLock
    /\ readers' = [readers EXCEPT ![t] = @ + 1]
    /\ Set(t, Goto(t, "parse_body"))
    /\ UNCHANGED <<closed, writer, writerHeld, dbCloseCalls, closeReturned>>

\* Parse: PrepareSyntax and ParseSyntax under the read lock, the deferred
\* RUnlock and the return; ok tells whether the statement parsed
ParseBody(t, ok) ==
    /\ th[t].pc = "parse_body"
    /\ readers' = [readers EXCEPT ![t] = @ - 1]
    /\ Set(t, IF ~ok THEN Return(t, Err.Other)
              ELSE IF th[t].op = "Parse" THEN Return(t, "")
              ELSE IF th[t].op = "Plan" THEN Goto(t, "prepare_plan")
              ELSE Goto(t, "p2s_rlock"))
    /\ UNCHANGED <<closed, writer, writerHeld, dbCloseCalls, closeReturned>>

\* ParsedToSql: eql.m.RLock()
ParsedToSqlRLock(t) ==
    /\ th[t].pc = "p2s_rlock"
    /\ CanRLock
    /\ readers' = [readers EXCEPT ![t] = @ + 1]
    /\ Set(t, Goto(t, "p2s_body"))
    /\ UNCHANGED <<closed, writer, writerHeld, dbCloseCalls, closeReturned>>

\* ParsedToSql: prepareSQL under the read lock, the deferred RUnlock and the
\* return; ok tells whether the syntax compiled
ParsedToSqlBody(t, ok) ==
    /\ th[t].pc = "p2s_body"
    /\ readers' = [readers EXCEPT ![t] = @ - 1]
    /\ Set(t, IF ~ok THEN Return(t, Err.Other)
              ELSE IF th[t].op = "Perform" THEN Goto(t, "perform_rlock")
              ELSE Return(t, ""))
    /\ UNCHANGED <<closed, writer, writerHeld, dbCloseCalls, closeReturned>>

\* Plan: eql.preparePlan, which reads eql.sources holding no lock
PlanPrepare(t, ok) ==
    /\ th[t].pc = "prepare_plan"
    /\ Set(t, Return(t, IF ok THEN "" ELSE Err.Other))
    /\ UNCHANGED <<closed, readers, writer, writerHeld, dbCloseCalls, closeReturned>>

\* Perform: eql.m.RLock() before the call of SqlQuery
PerformRLock(t) ==
    /\ th[t].pc = "perform_rlock"
    /\ CanRLock
    /\ readers' = [readers EXCEPT ![t] = @ + 1]
    /\ Set(t, Goto(t, "query_ready_rlock"))
    /\ UNCHANGED <<closed, writer, writerHeld, dbCloseCalls, closeReturned>>

\* SqlQuery: eql.db.Query on the driver handle and the return; Perform then
\* runs its deferred RUnlock
SqlQuery(t, err) ==
    /\ th[t].pc = "query"
    /\ Set(t, [Return(t, err) EXCEPT !.touched = TRUE])
    /\ readers' = [readers EXCEPT ![t] = 0]
    /\ UNCHANGED <<closed, writer, writerHeld, dbCloseCalls, closeReturned>>

\* SqlExec: eql.db.Exec on the driver handle and the return
SqlExec(t, err) ==
    /\ th[t].pc = "exec"
    /\ Set(t, [Return(t, err) EXCEPT !.touched = TRUE])
    /\ UNCHANGED <<closed, readers, writer, writerHeld, dbCloseCalls, closeReturned>>

\* CreateTables and CreateIndexes: the statements of one source, issued on
\* the driver handle with no lock held; the first error ends the loop
CreateNext(t, err) ==
    /\ th[t].pc = "ddl"
    /\ Set(t, IF err # "" THEN [Return(t, err) EXCEPT !.touched = TRUE]
              ELSE IF th[t].i = MaxSources
              THEN [Return(t, "") EXCEPT !.touched = TRUE]
              ELSE [th[t] EXCEPT !.i = @ + 1, !.touched = TRUE])
    /\ UNCHANGED <<closed, readers, writer, writerHeld, dbCloseCalls, closeReturned>>

NextEngine ==
    \/ \E t \in Threads, op \in Methods : Call(t, op)
    \/ \E t \in Threads : CloseLock(t)
    \/ \E t \in Threads : CloseLocked(t)
    \/ \E t \in Threads : CloseBody(t)
    \/ \E t \in Threads : ReadyRLock(t)
    \/ \E t \in Threads : ReadyRead(t)
    \/ \E t \in Threads : ParseRLock(t)
    \/ \E t \in Threads, ok \in BOOLEAN : ParseBody(t, ok)
    \/ \E t \in Threads : ParsedToSqlRLock(t)
    \/ \E t \in Threads, ok \in BOOLEAN : ParsedToSqlBody(t, ok)
    \/ \E t \in Threads, ok \in BOOLEAN : PlanPrepare(t, ok)
    \/ \E t \in Threads : PerformRLock(t)
    \/ \E t \in Threads, err \in {"", Err.Other} : SqlQuery(t, err)
    \/ \E t \in Threads, err \in {"", Err.Other} : SqlExec(t, err)
    \/ \E t \in Threads, err \in {"", Err.Other} : CreateNext(t, err)

SpecEngine ==
    Init /\ [][NextEngine /\ UNCHANGED <<graphVars, planVars, compileVars,
                                          tableColumns, laterVars>>]_vars

(***************************************************************************)
(* Properties of the engine                                                *)
(***************************************************************************)
InCall(t) == th[t].pc \notin {"idle", "returned"}

Returned(t, op) == th[t].pc = "returned" /\ th[t].op = op

\* C7: over all Close calls the driver handle is closed exactly once, and a
\* Close that is not the first to take the lock returns nil without touching
\* the handle
C7_CloseOnce ==
    /\ dbCloseCalls <= 1
    /\ closeReturned => dbCloseCalls = 1
    /\ Cardinality({t \in Threads : Returned(t, "Close") /\ th[t].touched}) <= 1
    /\ \A t \in Threads :
          (Returned(t, "Close") /\ th[t].after) => ~th[t].touched
    /\ \A t \in Threads :
          (Returned(t, "Close") /\ ~th[t].touched) => th[t].ret = ""

\* one Close closed the handle, and a Close called after it had returned
\* left the handle alone
C7_Witness ==
    \E t, u \in Threads :
        /\ Returned(t, "Close") /\ th[t].touched
        /\ Returned(u, "Close") /\ th[u].after /\ ~th[u].touched
        /\ dbCloseCalls = 1

\* where a method reads the state of the engine
ReadsEngine(t) ==
    \/ th[t].pc \in {"parse_body", "p2s_body", "prepare_plan", "ready_read",
                     "query_ready_read"}
    \/ th[t].pc = "query" /\ th[t].op = "Perform"

\* where a method reads the state of the engine under its read lock
ReadsLocked(t) ==
    \/ th[t].pc \in {"parse_body", "p2s_body", "ready_read",
                     "query_ready_rlock", "query_ready_read"}
    \/ th[t].pc = "query" /\ th[t].op = "Perform"

\* C8 as claimed: every read-only method holds the read lock wherever it
\* reads engine state, Close and the creation of tables and indexes hold the
\* write lock while they run, and so neither overlaps such a read
C8_LocksHeld ==
    /\ \A t \in Threads : ReadsEngine(t) => readers[t] > 0
    /\ \A t \in Threads :
          th[t].pc \in {"close_body", "ddl"} => (writer = t /\ writerHeld)
    /\ \A t, u \in Threads :
          (t # u /\ th[t].pc \in {"close_body", "ddl"}) => ~ReadsEngine(u)

\* the exclusion the locks do give: Parse, ParsedToSql, Ready and the SqlQuery
\* call of Perform hold the read lock wherever they read engine state, Close
\* holds the write lock while it runs, and Close overlaps none of them
ReadersExcludeClose ==
    /\ \A t \in Threads : ReadsLocked(t) => readers[t] > 0
    /\ \A t \in Threads : th[t].pc = "close_body" => (writer = t /\ writerHeld)
    /\ \A t, u \in Threads :
          th[t].pc = "close_body" => (readers[u] = 0 /\ ~ReadsLocked(u))

ReadyMethods ==
    {"Ready", "Perform", "SqlExec", "SqlQuery", "CreateTables", "CreateIndexes"}

\* C9: once Close has returned the engine stays closed, and every Ready,
\* Perform, SqlExec, SqlQuery, CreateTables and CreateIndexes called after
\* that returns sql.Err.ConnDone and issues no call on the driver handle
C9_StaysClosed ==
    /\ [](closeReturned => closed)
    /\ [][closed => closed']_vars
    /\ [](\A t \in Threads :
            (th[t].after /\ th[t].op \in ReadyMethods) =>
                /\ ~th[t].touched
                /\ th[t].pc = "returned" => th[t].ret = Err.ConnDone)

\* a Perform called after Close had returned came back with sql.Err.ConnDone
C9_Witness ==
    \E t \in Threads :
        /\ th[t].after
        /\ Returned(t, "Perform")
        /\ th[t].ret = Err.ConnDone
        /\ ~th[t].touched

\* a thread inside RLock or Lock that cannot return now
Waiting(t) ==
    \/ /\ th[t].pc \in {"ready_rlock", "query_ready_rlock", "parse_rlock",
                        "p2s_rlock", "perform_rlock"}
       /\ ~CanRLock
    \/ th[t].pc = "lock" /\ ~CanLock
    \/ th[t].pc = "locking" /\ ~CanAcquire(t)

\* C10: while a Perform or a Close is in progress some call in progress can
\* take its next step, so Perform and Close never wait for each other for
\* ever
C10_NoDeadlock ==
    \A t \in Threads :
        (InCall(t) /\ th[t].op \in {"Perform", "Close"}) =>
            \E u \in Threads : InCall(u) /\ ~Waiting(u)

\* the driver calls of the methods that test closed through Ready and hold no
\* lock afterwards
IssuesStatement(t) ==
    /\ th[t].op \in {"SqlExec", "SqlQuery", "CreateTables", "CreateIndexes"}
    /\ th[t].pc \in {"exec", "query", "ddl"}
    /\ th'[t] # th[t]

\* C25: SqlExec, SqlQuery, CreateTables and CreateIndexes issue no statement
\* on the driver handle once a Close has closed it
C25_NoStatementAfterClose ==
    [][\A t \in Threads : IssuesStatement(t) => ~closed]_vars

(***************************************************************************)
(* Syntax and its compilation to SQL                                       *)
(***************************************************************************)
PageStubKey == "stub"

\* the columns of a source's table: its id and the values it declares
Columns(src) == tableColumns[src]

\* the values a source can declare: the stub column, or none
SourceValues == SUBSET {PageStubKey}

CompileNames == {SourceNames[i] : i \in 1..MaxCompileSources}

\* SourceKey and SourceRef: an optional source ("" when omitted) and a key
SourceKeys == [Source : {""} \cup CompileNames, Key : {SourceIdKey, PageStubKey}]

\* an optional integer, <<>> when nil
OptInts == {<<>>} \cup {<<n>> : n \in 0..MaxInt}

\* Syntax
AllSyntax ==
    [Lookup : BOOLEAN, Count : BOOLEAN, Distinct : BOOLEAN, Query : BOOLEAN,
     Keys : UNION {[1..n -> SourceKeys] : n \in 0..MaxKeys},
     Within : {<<>>} \cup {<<r>> : r \in SourceKeys},
     Offset : OptInts, Limit : OptInts]

\* Constraint.validate, for the constraint of a WITHIN; a WITHIN given as a
\* bare reference stands for a comparison of that reference with a value
ConstraintValidate(c) ==
    IF "In" \notin DOMAIN c THEN ""
    ELSE IF c.In
    THEN (IF Len(c.Values) = 0 THEN Err.InvalidInOp ELSE "")
    ELSE IF c.Op = "" THEN Err.MissingOperator
    ELSE IF c.Right = <<>> THEN Err.MissingRightSide
    ELSE ""

\* Syntax.Validate: "" when the syntax is accepted
Validate(s) ==
    LET numKeys == Len(s.Keys)
    IN IF s.Query /\ numKeys > 0 THEN Err.MismatchQuery
       ELSE IF ~s.Query /\ s.Lookup /\ numKeys = 0 THEN Err.MismatchLookup
       ELSE IF ~s.Query /\ s.Lookup /\ s.Count /\ numKeys # 1 THEN Err.CountKeys
       ELSE IF ~s.Query /\ s.Lookup /\ ~s.Count /\ s.Distinct /\ numKeys # 1
       THEN Err.DistinctKeys
       ELSE IF s.Within # <<>> /\ ConstraintValidate(s.Within[1]) # ""
       THEN ConstraintValidate(s.Within[1])
       ELSE IF s.Offset # <<>> /\ s.Offset[1] < 0 THEN Err.NegativeOffset
       ELSE IF s.Limit # <<>> /\ s.Limit[1] < 0 THEN Err.NegativeLimit
       ELSE ""

\* ParseSyntax: what the grammar, Syntax.init and Syntax.Validate let through
Statements ==
    {s \in AllSyntax :
        /\ s.Lookup # s.Query
        /\ s.Query => (s.Keys = <<>> /\ ~s.Count /\ ~s.Distinct)
        /\ s.Lookup => Len(s.Keys) >= 1
        /\ Validate(s) = ""}

\* Syntax.findSources: the references of the keys, then of WITHIN
findSources(s) == s.Keys \o s.Within

\* cProcessor.findUpdatedSrcKeyRefs, one reference: its source, the primary
\* source when omitted
UpdatedSrc(found) == IF found.Source = "" THEN primary ELSE found.Source

\* cProcessor.findUpdatedSrcKeyRefs: the first error over the references in
\* order, "" when every table and column exists
RECURSIVE findUpdatedErr(_, _)
findUpdatedErr(found, idx) ==
    IF idx > Len(found) THEN ""
    ELSE IF UpdatedSrc(found[idx]) \notin DOMAIN lookup THEN Err.TableNotFound
    ELSE IF found[idx].Key \notin Columns(UpdatedSrc(found[idx]))
    THEN Err.ColumnNotFound
    ELSE findUpdatedErr(found, idx + 1)

\* the order of the textual forms "<source>.<key>" under maps.SortedKeys
NameOrder == <<"", "letter", "page", "tag", "title", "word", "word_tags">>
KeyOrder == <<SourceIdKey, PageStubKey>>

IndexOf(seq, x) == CHOOSE i \in 1..Len(seq) : seq[i] = x

FormalLess(a, b) ==
    \/ IndexOf(NameOrder, a.Source) < IndexOf(NameOrder, b.Source)
    \/ /\ a.Source = b.Source
       /\ IndexOf(KeyOrder, a.Key) < IndexOf(KeyOrder, b.Key)

RECURSIVE SortedKeys(_)
SortedKeys(set) ==
    IF set = {} THEN <<>>
    ELSE LET min == CHOOSE a \in set : \A b \in set \ {a} : FormalLess(a, b)
         IN <<min>> \o SortedKeys(set \ {min})

\* cProcessor.getRequiredSources: the sources of the references, each once,
\* in the sorted order of the references' textual forms
getRequiredSources(found) ==
    LET formals == SortedKeys(Range(found))
    IN NewStackUnique([i \in 1..Len(formals) |-> UpdatedSrc(formals[i])])

\* what prepareSQL returns when it fails
SqlFail(err) ==
    [err |-> err, fn |-> "", columns |-> <<>>, top |-> "", joins |-> <<>>,
     where |-> <<>>, offset |-> <<>>, limit |-> <<>>]

Resolved(key) == [Source |-> UpdatedSrc(key), Key |-> key.Key]

\* prepareSQL, the projection: the resolved keys, under COUNT and DISTINCT
\* the first key only
Projection(s) ==
    IF s.Lookup
    THEN IF s.Count \/ s.Distinct THEN <<Resolved(s.Keys[1])>>
         ELSE [i \in 1..Len(s.Keys) |-> Resolved(s.Keys[i])]
    ELSE IF s.Query THEN <<[Source |-> primary, Key |-> PageStubKey]>>
    ELSE <<>>

ProjectionFn(s) ==
    IF ~s.Lookup THEN ""
    ELSE IF s.Count /\ s.Distinct THEN "COUNT DISTINCT"
    ELSE IF s.Count THEN "COUNT"
    ELSE IF s.Distinct THEN "DISTINCT"
    ELSE ""

\* prepareSyntaxBuild, the rewrite of a QUERY: the stub of the primary source
\* becomes the one key of the syntax, which the caller's Syntax keeps
StubKeys(s) ==
    IF s.Query /\ Len(nodes) > 0
    THEN [s EXCEPT !.Keys = <<[Source |-> primary, Key |-> PageStubKey]>>]
    ELSE s

\* prepareSQL: every (syntax as left behind, SQL or error) a call can return
prepareSQL(s) ==
    IF Validate(s) # "" THEN {[syntax |-> s, out |-> SqlFail(Validate(s))]}
    ELSE LET build == StubKeys(s)
             found == findSources(build)
         IN IF findUpdatedErr(found, 1) # ""
            THEN {[syntax |-> build, out |-> SqlFail(findUpdatedErr(found, 1))]}
            ELSE {[syntax |-> build,
                   out |-> IF r.err # "" THEN SqlFail(r.err)
                           ELSE IF build.Query /\ ~build.Lookup
                                   /\ PageStubKey \notin Columns(primary)
                           THEN SqlFail(Err.QueryRequiresStub)
                           ELSE [err |-> "", fn |-> ProjectionFn(build),
                                 columns |-> Projection(build),
                                 top |-> r.top, joins |-> r.joins,
                                 where |-> [i \in 1..Len(build.Within) |->
                                               Resolved(build.Within[i])],
                                 offset |-> build.Offset,
                                 limit |-> build.Limit]] :
                    r \in plan(getRequiredSources(found))}

(***************************************************************************)
(* Operations that compile statements                                      *)
(***************************************************************************)
\* New: the sources of the configuration are declared before any statement
DeclareSource(parent, linked, values) ==
    /\ stmt = <<>>
    /\ Len(nodes) < MaxCompileSources
    /\ AddSource(parent, linked)
    /\ tableColumns' = [n \in DOMAIN tableColumns \cup {SourceNames[Len(nodes) + 1]} |->
                      IF n \in DOMAIN tableColumns THEN tableColumns[n]
                      ELSE {SourceIdKey} \cup values]

\* enjinql.Parse: a statement is parsed to a fresh Syntax
Parse(s) ==
    /\ Len(nodes) > 0
    /\ stmt = <<>>
    /\ stmt' = <<s>>
    /\ syntax' = <<s>>
    /\ UNCHANGED <<graphVars, planVars, engineVars, sqlCalls, toSqlCalls,
                   tableColumns, laterVars>>

\* enjinql.ParsedToSql on the Syntax that Parse returned
ParsedToSql ==
    /\ syntax # <<>>
    /\ Len(sqlCalls) < 2
    /\ \E r \in prepareSQL(syntax[1]) :
          /\ syntax' = <<r.syntax>>
          /\ sqlCalls' = Append(sqlCalls, r.out)
    /\ UNCHANGED <<graphVars, planVars, engineVars, stmt, toSqlCalls,
                   tableColumns, laterVars>>

\* enjinql.ToSQL on the statement text: Parse, then ParsedToSql on its result
ToSQL ==
    /\ stmt # <<>>
    /\ Len(toSqlCalls) < 2
    /\ \E r \in prepareSQL(stmt[1]) : toSqlCalls' = Append(toSqlCalls, r.out)
    /\ UNCHANGED <<graphVars, planVars, engineVars, stmt, syntax, sqlCalls,
                   tableColumns, laterVars>>

NextCompile ==
    \/ \E parent \in {""} \cup DOMAIN lookup, linked \in SUBSET DOMAIN lookup,
          values \in SourceValues :
          DeclareSource(parent, linked, values)
    \/ stmt = <<>> /\ \E s \in Statements : Parse(s)
    \/ ParsedToSql
    \/ ToSQL

SpecCompile == Init /\ [][NextCompile]_vars

\* the calls made for the statement: ParsedToSql's and ToSQL's
CompileCalls == Range(sqlCalls) \cup Range(toSqlCalls)

\* C17: compiling a QUERY fails with QueryRequiresStub when the primary
\* source has no stub column, and with one it selects exactly the stub column
\* of the primary source
C17_QueryNeedsStub ==
    (stmt # <<>> /\ stmt[1].Query) =>
        \A out \in CompileCalls :
            IF PageStubKey \notin Columns(primary)
            THEN out.err = Err.QueryRequiresStub
            ELSE out.err = "" =>
                    /\ out.fn = ""
                    /\ out.columns = <<[Source |-> primary, Key |-> PageStubKey]>>

\* C4: for a Syntax that validates, the second ParsedToSql call on it returns
\* the query and arguments of the first, and so does the second ToSQL call
\* on its statement
C4_CompileTwiceSame ==
    /\ Len(sqlCalls) = 2 => sqlCalls[2] = sqlCalls[1]
    /\ Len(toSqlCalls) = 2 => toSqlCalls[2] = toSqlCalls[1]

(***************************************************************************)
(* Transactions: cSqlTrunkTX and cSqlTX                                    *)
(***************************************************************************)
\* how many Commit and Rollback calls are made on one trunk
MaxTxCalls == 3
\* how many statements are executed on one transaction
MaxExec == 2
\* how many columns, the id aside, the widest source has
MaxColumns == 2
\* the largest row identifier given
MaxId == 1

\* cSource.order of the sources of the engine: every column but the id, in
\* declared order
TxOrder ==
    [n \in {"page", "word"} |->
        IF n = "page" THEN [i \in 1..MaxColumns |-> <<"column", i>>]
        ELSE <<<<"column", 1>>>>]

\* the source names a caller passes, one of them unknown to the engine
TxNames == DOMAIN TxOrder \cup {"nope"}

\* the value lists a caller passes to Insert, each value named by its place
\* among the arguments
TxValues == {[i \in 1..k |-> i] : k \in 0..(MaxColumns + 1)}

\* the row identifiers a caller passes to Delete
TxIds == (0 - 1)..MaxId

\* c.Valid()
Valid == trunkValid

\* Commit and Rollback without the c.tx = nil of a successful call
Finish_KeepsTx(op, ok) ==
    /\ Len(txCalls) < MaxTxCalls
    /\ IF Valid
       THEN txCalls' = Append(txCalls,
                [op |-> op, called |-> TRUE,
                 ret |-> IF ok THEN "" ELSE Err.Driver, valid |-> TRUE])
       ELSE txCalls' = Append(txCalls,
                [op |-> op, called |-> FALSE, ret |-> "", valid |-> FALSE])
    /\ UNCHANGED <<trunkValid, execLog, dml>>

\* cSqlTrunkTX.Commit and cSqlTrunkTX.Rollback: op names the method and ok
\* says whether the driver's call succeeds
Finish(op, ok) ==
    /\ Len(txCalls) < MaxTxCalls
    /\ IF Valid
       THEN /\ trunkValid' = ~ok
            /\ txCalls' = Append(txCalls,
                  [op |-> op, called |-> TRUE,
                   ret |-> IF ok THEN "" ELSE Err.Driver, valid |-> ~ok])
       ELSE /\ trunkValid' = trunkValid
            /\ txCalls' = Append(txCalls,
                  [op |-> op, called |-> FALSE, ret |-> "", valid |-> FALSE])
    /\ UNCHANGED <<execLog, dml>>

Commit(ok) == Finish("Commit", ok)

Rollback(ok) == Finish("Rollback", ok)

\* c.tx.Exec: the statement reaches the driver when the transaction is there
Exec(op, name, args, statement, ok, errExec) ==
    IF ~trunkValid
    THEN /\ dml' = [op |-> op, name |-> name, args |-> args, err |-> Err.NilTx,
                    executed |-> FALSE]
         /\ UNCHANGED execLog
    ELSE /\ execLog' = Append(execLog, statement)
         /\ dml' = [op |-> op, name |-> name, args |-> args,
                    err |-> IF ok THEN "" ELSE errExec, executed |-> TRUE]

\* Insert that cuts nothing and rejects nothing for the number of values
Insert_NoCount(name, values, built, ok) ==
    /\ Len(execLog) < MaxExec
    /\ name \in DOMAIN TxOrder
    /\ Exec("Insert", name, values,
            [kind |-> "insert", table |-> name, columns |-> TxOrder[name],
             values |-> values], ok, Err.InsertExec)
    /\ UNCHANGED <<trunkValid, txCalls>>

\* cSqlTX.Insert: built says whether the builder renders the statement, ok
\* whether the driver executes it
Insert(name, values, built, ok) ==
    /\ Len(execLog) < MaxExec
    /\ LET reject(err) ==
               /\ dml' = [op |-> "Insert", name |-> name, args |-> values,
                          err |-> err, executed |-> FALSE]
               /\ UNCHANGED execLog
           numValues == Len(values)
       IN IF name \notin DOMAIN TxOrder THEN reject(Err.SourceNotFound)
          ELSE IF numValues = 0 THEN reject(Err.InsertNoValues)
          ELSE LET order == TxOrder[name]
                   numColumns == Len(order)
                   columns == IF numColumns > numValues
                              THEN SubSeq(order, 1, numValues) ELSE order
               IN IF numColumns < numValues THEN reject(Err.InsertTooMany)
                  ELSE IF ~built THEN reject(Err.InsertBuild)
                  ELSE Exec("Insert", name, values,
                            [kind |-> "insert", table |-> name,
                             columns |-> columns, values |-> values],
                            ok, Err.InsertExec)
    /\ UNCHANGED <<trunkValid, txCalls>>

\* cSqlTX.Delete
Delete(name, id, ok) ==
    /\ Len(execLog) < MaxExec
    /\ LET reject(err) ==
               /\ dml' = [op |-> "Delete", name |-> name, args |-> <<id>>,
                          err |-> err, executed |-> FALSE]
               /\ UNCHANGED execLog
       IN IF name \notin DOMAIN TxOrder THEN reject(Err.SourceNotFound)
          ELSE IF id <= 0 THEN reject(Err.DeleteInvalidID)
          ELSE Exec("Delete", name, <<id>>,
                    [kind |-> "delete", table |-> name,
                     columns |-> <<SourceIdKey>>, values |-> <<id>>],
                    ok, Err.DeleteExec)
    /\ UNCHANGED <<trunkValid, txCalls>>

NextTx ==
    \/ \E ok \in BOOLEAN : Commit(ok)
    \/ \E ok \in BOOLEAN : Rollback(ok)
    \/ \E name \in TxNames, values \in TxValues, built, ok \in BOOLEAN :
          Insert(name, values, built, ok)
    \/ \E name \in TxNames, id \in TxIds, ok \in BOOLEAN : Delete(name, id, ok)

SpecTx ==
    Init /\ [][NextTx /\ UNCHANGED <<graphVars, planVars, engineVars,
                                      compileVars, tableColumns, ddlVars,
                                      syntaxVars, cfgCall, moreVars>>]_vars

\* the calls on the trunk that completed the driver transaction
Completed == {i \in 1..Len(txCalls) : txCalls[i].called /\ txCalls[i].ret = ""}

\* C11: over any sequence of Commit and Rollback calls the driver transaction
\* is completed at most once; after the first successful call Valid() is false
\* and every later call returns nil without calling the driver; a failed call
\* leaves the handle valid
C11_CompleteOnce ==
    /\ Cardinality(Completed) <= 1
    /\ Valid <=> Completed = {}
    /\ \A i \in 1..Len(txCalls) :
          /\ (\E j \in Completed : j < i) =>
                (~txCalls[i].called /\ txCalls[i].ret = "" /\ ~txCalls[i].valid)
          /\ (txCalls[i].called /\ txCalls[i].ret # "") => txCalls[i].valid
          /\ i \in Completed => ~txCalls[i].valid

\* a failed Commit, then a successful Rollback, then a Commit that returns nil
\* without calling the driver
C11_Witness ==
    /\ Len(txCalls) = 3
    /\ txCalls[1].op = "Commit" /\ txCalls[1].called /\ txCalls[1].ret # ""
    /\ txCalls[2].op = "Rollback" /\ txCalls[2].called /\ txCalls[2].ret = ""
    /\ txCalls[3].op = "Commit" /\ ~txCalls[3].called /\ txCalls[3].ret = ""
    /\ ~Valid

\* the statement the last call executed
LastExec == execLog[Len(execLog)]

\* what the last Insert or Delete call returned and executed, by its arguments
C12_RejectsState ==
    /\ dml.op = "Insert" =>
          /\ dml.name \notin DOMAIN TxOrder =>
                (dml.err = Err.SourceNotFound /\ ~dml.executed)
          /\ (dml.name \in DOMAIN TxOrder /\ Len(dml.args) = 0) =>
                (dml.err = Err.InsertNoValues /\ ~dml.executed)
          /\ (dml.name \in DOMAIN TxOrder
                /\ Len(dml.args) > Len(TxOrder[dml.name])) =>
                (dml.err = Err.InsertTooMany /\ ~dml.executed)
          /\ dml.executed =>
                /\ LastExec.kind = "insert"
                /\ LastExec.table = dml.name
                /\ LastExec.values = dml.args
                /\ LastExec.columns =
                      SubSeq(TxOrder[dml.name], 1, Len(dml.args))
    /\ dml.op = "Delete" =>
          /\ dml.name \notin DOMAIN TxOrder =>
                (dml.err = Err.SourceNotFound /\ ~dml.executed)
          /\ (dml.name \in DOMAIN TxOrder /\ dml.args[1] <= 0) =>
                (dml.err = Err.DeleteInvalidID /\ ~dml.executed)

\* C12: Insert executes nothing when the source is unknown, when no value is
\* given or when more values are given than the source has columns besides
\* the id, and with fewer values it writes the leading columns only; Delete
\* executes nothing when the source is unknown or the id is not positive
C12_RejectsBeforeExec ==
    /\ []C12_RejectsState
    /\ [][execLog' # execLog => dml'.executed]_vars

\* an Insert with fewer values than columns was executed
C12_Witness ==
    /\ dml.op = "Insert"
    /\ dml.executed
    /\ Len(dml.args) < Len(TxOrder[dml.name])
    /\ Len(LastExec.columns) = Len(dml.args)

\* C29: once a Commit or a Rollback has completed the transaction, every
\* Insert and Delete on the trunk returns an error value: it does not use the
\* cleared transaction and executes no statement
C29_ErrorAfterFinish ==
    [][(~Valid /\ dml' # dml) =>
          (dml'.err \notin {"", Err.NilTx} /\ execLog' = execLog)]_vars

(***************************************************************************)
(* New: the creation of tables and indexes                                 *)
(***************************************************************************)
\* how many sources the config of New declares
MaxDdlSources == 2
\* how many indexes a source declares
MaxIndexes == 2

\* where one DDL statement can fail: nowhere, in Begin, in ToSql, in Exec or
\* in tx.Commit
FailPoints == {"", "begin", "build", "exec", "commit"}

\* eql.config.Sources, by place in the declaration
DdlSources == 1..MaxDdlSources

\* New returns: the engine only when init returned no error
ReturnNew(err) ==
    /\ newRet' = [returned |-> TRUE, err |-> err, engine |-> (err = "")]
    /\ ddlPc' = [phase |-> "returned", i |-> 0, j |-> 0]

\* New up to the call of init, with the sources of the config added; indexes
\* gives how many indexes each source declares
New(skipTables, skipIndexes, indexes) ==
    /\ ddlPc.phase = "none"
    /\ opt' = [skipCreateTables |-> skipTables,
               skipCreateIndexes |-> skipIndexes, indexes |-> indexes]
    /\ ddlPc' = [phase |-> "init", i |-> 0, j |-> 0]
    /\ UNCHANGED <<ddlLog, dbObjects, newRet>>

\* init: if !eql.option.skipCreateTables
InitCreateTables ==
    /\ ddlPc.phase = "init"
    /\ ddlPc' = IF opt.skipCreateTables
                THEN [phase |-> "tables_done", i |-> 0, j |-> 0]
                ELSE [phase |-> "tables", i |-> 1, j |-> 0]
    /\ UNCHANGED <<opt, ddlLog, dbObjects, newRet>>

\* one statement as CreateTables runs it: Begin, ToSql, tx.Exec, tx.Commit,
\* and tx.Rollback on any error; fail names the step that fails
RunInTx(object, fail) ==
    LET issued == fail \in {"", "commit", "exec"}
        entry == [object |-> object, via |-> "tx", failed |-> fail # ""]
    IN /\ ddlLog' = IF issued THEN Append(ddlLog, entry) ELSE ddlLog
       /\ dbObjects' = IF fail = "" THEN Append(dbObjects, object)
                       ELSE dbObjects

\* the error a failing statement returns
DdlError(fail, errBuild, errExec) ==
    CASE fail = "begin" -> Err.Begin
      [] fail = "build" -> errBuild
      [] fail = "exec" -> errExec
      [] fail = "commit" -> Err.Commit
      [] OTHER -> ""

\* CreateTables: one turn of the loop over the sources, or its end
CreateTable(fail) ==
    /\ ddlPc.phase = "tables"
    /\ IF ddlPc.i > MaxDdlSources
       THEN /\ fail = ""
            /\ ddlPc' = [phase |-> "tables_done", i |-> 0, j |-> 0]
            /\ UNCHANGED <<ddlLog, dbObjects, newRet>>
       ELSE /\ RunInTx(<<"table", ddlPc.i>>, fail)
            /\ IF fail = ""
               THEN /\ ddlPc' = [ddlPc EXCEPT !.i = @ + 1]
                    /\ UNCHANGED newRet
               ELSE ReturnNew(DdlError(fail, Err.CreateTableSQL, Err.CreateTable))
    /\ UNCHANGED opt

\* init: if !eql.option.skipCreateIndexes, ignoring the option
InitCreateIndexes_IgnoresSkip ==
    /\ ddlPc.phase = "tables_done"
    /\ ddlPc' = [phase |-> "indexes", i |-> 1, j |-> 1]
    /\ UNCHANGED <<opt, ddlLog, dbObjects, newRet>>

\* init: if !eql.option.skipCreateIndexes
InitCreateIndexes ==
    /\ ddlPc.phase = "tables_done"
    /\ IF opt.skipCreateIndexes
       THEN /\ ReturnNew("")
            /\ UNCHANGED <<opt, ddlLog, dbObjects>>
       ELSE /\ ddlPc' = [phase |-> "indexes", i |-> 1, j |-> 1]
            /\ UNCHANGED <<opt, ddlLog, dbObjects, newRet>>

\* one statement as CreateIndexes runs it: Begin, ToSql, eql.db.Exec on the
\* handle, tx.Commit, and tx.Rollback on any error. The statement never
\* enters the transaction: what Exec did stays when Commit fails
RunBesideTx(object, fail) ==
    LET issued == fail \in {"", "commit", "exec"}
        entry == [object |-> object, via |-> "handle", failed |-> fail # ""]
    IN /\ ddlLog' = IF issued THEN Append(ddlLog, entry) ELSE ddlLog
       /\ dbObjects' = IF fail \in {"", "commit"} THEN Append(dbObjects, object)
                       ELSE dbObjects

\* CreateIndexes: one turn of the loops over the sources and their indexes,
\* or their end
CreateIndex(fail) ==
    /\ ddlPc.phase = "indexes"
    /\ IF ddlPc.i > MaxDdlSources
       THEN /\ fail = ""
            /\ ReturnNew("")
            /\ UNCHANGED <<ddlLog, dbObjects>>
       ELSE IF ddlPc.j > opt.indexes[ddlPc.i]
       THEN /\ fail = ""
            /\ ddlPc' = [ddlPc EXCEPT !.i = @ + 1, !.j = 1]
            /\ UNCHANGED <<ddlLog, dbObjects, newRet>>
       ELSE /\ RunBesideTx(<<"index", ddlPc.i, ddlPc.j>>, fail)
            /\ IF fail = ""
               THEN /\ ddlPc' = [ddlPc EXCEPT !.j = @ + 1]
                    /\ UNCHANGED newRet
               ELSE ReturnNew(DdlError(fail, Err.CreateIndexSQL, Err.CreateIndex))
    /\ UNCHANGED opt

NextDdl ==
    \/ \E skipTables, skipIndexes \in BOOLEAN,
          indexes \in [DdlSources -> 0..MaxIndexes] :
          New(skipTables, skipIndexes, indexes)
    \/ InitCreateTables
    \/ \E fail \in FailPoints : CreateTable(fail)
    \/ InitCreateIndexes
    \/ \E fail \in FailPoints : CreateIndex(fail)

SpecDdl ==
    Init /\ [][NextDdl /\ UNCHANGED <<graphVars, planVars, engineVars,
                                       compileVars, tableColumns, txVars,
                                       syntaxVars, cfgCall, moreVars>>]_vars

\* C13: every CREATE TABLE and CREATE INDEX statement is executed inside its
\* own transaction, committed on success and rolled back on failure, so a
\* statement whose creation fails leaves no effect in the database
C13_OwnTransaction ==
    /\ [](\A k \in 1..Len(ddlLog) : ddlLog[k].via = "tx")
    /\ [][(newRet'.returned /\ newRet'.err # "") => dbObjects' = dbObjects]_vars

TablesIssued == {k \in 1..Len(ddlLog) : ddlLog[k].object[1] = "table"}

IndexesIssued == {k \in 1..Len(ddlLog) : ddlLog[k].object[1] = "index"}

\* every statement New issues with the options given, in the order of the
\* declaration
AllDdl ==
    LET RECURSIVE indexesFrom(_, _)
        indexesFrom(i, j) ==
            IF i > MaxDdlSources THEN <<>>
            ELSE IF j > opt.indexes[i] THEN indexesFrom(i + 1, 1)
            ELSE <<<<"index", i, j>>>> \o indexesFrom(i, j + 1)
        tables == [i \in DdlSources |-> <<"table", i>>]
    IN IF ddlPc.phase = "none" THEN <<>>
       ELSE (IF opt.skipCreateTables THEN <<>> ELSE tables)
            \o (IF opt.skipCreateIndexes THEN <<>> ELSE indexesFrom(1, 1))

\* what holds of the statements issued so far and of what New returned
C14_DdlState ==
    /\ opt.skipCreateTables => TablesIssued = {}
    /\ opt.skipCreateIndexes => IndexesIssued = {}
    /\ Len(ddlLog) <= Len(AllDdl)
    /\ \A k \in 1..Len(ddlLog) :
          /\ ddlLog[k].object = AllDdl[k]
          /\ k < Len(ddlLog) => ~ddlLog[k].failed
          /\ ddlLog[k].failed =>
                (newRet.returned /\ newRet.err # "" /\ ~newRet.engine)
    /\ (IndexesIssued # {} /\ ~opt.skipCreateTables) =>
          \A i \in DdlSources :
              \E k \in 1..Len(dbObjects) :
                  /\ dbObjects[k] = <<"table", i>>
                  /\ \A l \in 1..Len(dbObjects) :
                        dbObjects[l][1] = "index" => k < l
    /\ newRet.returned =>
          /\ newRet.engine <=> newRet.err = ""
          /\ newRet.err = "" =>
                /\ Len(ddlLog) = Len(AllDdl)
                /\ \A k \in 1..Len(ddlLog) : ~ddlLog[k].failed

\* C14: unless skipped, New issues CREATE TABLE for every source in the order
\* of the declaration and commits it before any CREATE INDEX is issued; a
\* skipped kind is never issued; after the first DDL error nothing more is
\* issued and New returns the error and no engine
C14_DdlOrder ==
    /\ []C14_DdlState
    /\ [][newRet.returned => ddlLog' = ddlLog]_vars
    /\ [][(\E k \in 1..Len(ddlLog) : ddlLog[k].failed) => ddlLog' = ddlLog]_vars

\* every table was created, then the creation of an index failed and New
\* returned that error and no engine
C14_Witness ==
    /\ newRet.returned
    /\ newRet.err = Err.CreateIndex
    /\ ~newRet.engine
    /\ Cardinality(TablesIssued) = MaxDdlSources
    /\ IndexesIssued # {}
    /\ ddlLog[Len(ddlLog)].failed

(***************************************************************************)
(* Syntax: Validate, String and ParseSyntax                                *)
(***************************************************************************)
\* how many keys a LOOKUP names
MaxEqlKeys == 1
\* how many references an ORDER BY names
MaxOrderBy == 2
\* the largest integer written in a statement
MaxEqlInt == 0
\* how many values an IN list holds
MaxInValues == 1
\* how many sources a Config holds, how many values a source, and how many
\* unique tuples and index tuples
MaxConfigSources == 2
MaxConfigValues == 1
MaxConfigTuples == 1

\* the source names and key names written in statements
EqlSources == {"", "w"}
EqlKeys == {"a"}

\* SourceKey and SourceRef without alias: Source is "" when omitted
EqlRefs == [Source : EqlSources, Key : EqlKeys]

\* Value: the integers
EqlInts == 0..MaxEqlInt

\* Constraint: Op is "" and Right is <<>> when nil
EqConstraint(ref, n) ==
    [Left |-> ref, In |-> FALSE, Op |-> "==", Right |-> <<n>>, Values |-> <<>>]

InConstraint(ref, values) ==
    [Left |-> ref, In |-> TRUE, Op |-> "", Right |-> <<>>, Values |-> values]

\* the *Syntax values a caller can build and hand to Validate
SyntaxValues ==
    [Lookup : BOOLEAN, Count : BOOLEAN, Distinct : BOOLEAN, Query : BOOLEAN,
     Keys : {[i \in 1..n |-> [Source |-> "", Key |-> "a"]] : n \in 0..MaxKeys},
     Within : {<<>>}
        \cup {<<EqConstraint([Source |-> "", Key |-> "a"], 0)>>}
        \cup {<<InConstraint([Source |-> "", Key |-> "a"], values)>> :
                values \in UNION {[1..n -> EqlInts] : n \in 0..MaxInValues}},
     OrderBy : {<<>>},
     Offset : {<<>>} \cup {<<n>> : n \in (0 - 1)..MaxEqlInt},
     Limit : {<<>>} \cup {<<n>> : n \in (0 - 1)..MaxEqlInt},
     Semicolon : {FALSE}]

\* a caller hands a Syntax to Validate
CallValidate(s) ==
    /\ checked = <<>>
    /\ input = <<>>
    /\ checked' = <<[syntax |-> s, err |-> Validate(s)]>>
    /\ UNCHANGED <<input, parsed, printed, reparsed>>

InvalidSyntaxErrors ==
    {Err.MismatchQuery, Err.MismatchLookup, Err.CountKeys, Err.DistinctKeys,
     Err.InvalidInOp, Err.MissingOperator, Err.MissingRightSide,
     Err.NegativeOffset, Err.NegativeLimit}

\* C15: every Syntax that Validate accepts has no keys in Query mode, at least
\* one key in Lookup mode, exactly one key when Count or Distinct is set, at
\* least one value in every IN constraint and no negative Offset or Limit;
\* what it rejects it reports as InvalidSyntax
C15_AcceptedIsStructured ==
    checked # <<>> =>
        LET s == checked[1].syntax
        IN /\ checked[1].err # "" => checked[1].err \in InvalidSyntaxErrors
           /\ checked[1].err = "" =>
                /\ s.Query => Len(s.Keys) = 0
                /\ s.Lookup => Len(s.Keys) >= 1
                /\ (s.Count \/ s.Distinct) => Len(s.Keys) = 1
                /\ (s.Within # <<>> /\ s.Within[1].In) =>
                      Len(s.Within[1].Values) >= 1
                /\ s.Offset # <<>> => s.Offset[1] >= 0
                /\ s.Limit # <<>> => s.Limit[1] >= 0

\* the lexer's keywords, punctuation and operators among the pieces of a text
Keywords ==
    {"LOOKUP", "QUERY", "COUNT", "DISTINCT", "WITHIN", "ORDER", "BY", "RANDOM",
     "ASC", "DSC", "DESC", "OFFSET", "LIMIT", "IN"}

Punctuation == {".", ",", ";", "(", ")"}

Operators == {"=="}

Space == " "

\* a text is the sequence of its pieces: a piece is a space, a punctuation
\* mark, an operator or a run of letters or of digits. Pieces of letters and
\* digits that follow each other with nothing between them read as one word.
IsWord(piece) == piece \notin Punctuation \cup Operators \cup {Space}

\* strconv.Itoa
Itoa(n) == ToString(n)

IntPieces == {Itoa(n) : n \in EqlInts}

\* glInt, glIdent and the Keyword rule on one word, given as its pieces
WordToken(run) ==
    LET RECURSIVE joined(_)
        joined(i) == IF i > Len(run) THEN "" ELSE run[i] \o joined(i + 1)
        RECURSIVE number(_, _)
        number(i, acc) ==
            IF i > Len(run) THEN acc
            ELSE number(i + 1,
                        10 * acc + (CHOOSE n \in EqlInts : Itoa(n) = run[i]))
    IN IF \A i \in 1..Len(run) : run[i] \in IntPieces
       THEN [kind |-> "Int", text |-> joined(1), val |-> number(1, 0)]
       ELSE IF run[1] \in IntPieces
       THEN [kind |-> "Error", text |-> joined(1), val |-> 0]
       ELSE IF Len(run) = 1 /\ run[1] \in Keywords
       THEN [kind |-> "Keyword", text |-> run[1], val |-> 0]
       ELSE [kind |-> "Ident", text |-> joined(1), val |-> 0]

\* F applied to the value of e, with e evaluated once
Once(e, F(_)) == CHOOSE r \in {F(x) : x \in {e}} : TRUE

\* gSyntaxLexer: the tokens of a text, whitespace elided
RECURSIVE LexFrom(_, _)
LexFrom(text, i) ==
    IF i > Len(text) THEN <<>>
    ELSE IF text[i] = Space THEN LexFrom(text, i + 1)
    ELSE IF text[i] \in Punctuation
    THEN <<[kind |-> "Punctuation", text |-> text[i], val |-> 0]>>
         \o LexFrom(text, i + 1)
    ELSE IF text[i] \in Operators
    THEN <<[kind |-> "Operator", text |-> text[i], val |-> 0]>>
         \o LexFrom(text, i + 1)
    ELSE Once(CHOOSE j \in i..Len(text) :
                  /\ \A k \in i..j : IsWord(text[k])
                  /\ j = Len(text) \/ ~IsWord(text[j + 1]),
              LAMBDA last : <<WordToken(SubSeq(text, i, last))>>
                            \o LexFrom(text, last + 1))

Lex(text) == Once(text, LAMBDA t : LexFrom(t, 1))

\* the token at a place, and the tests the grammar makes on it
At(ts, p) ==
    IF p <= Len(ts) THEN ts[p] ELSE [kind |-> "EOF", text |-> "", val |-> 0]

Kw(ts, p, word) == At(ts, p).kind = "Keyword" /\ At(ts, p).text = word

Pn(ts, p, mark) == At(ts, p).kind = "Punctuation" /\ At(ts, p).text = mark

IsIdent(ts, p) == At(ts, p).kind = "Ident"

IsInt(ts, p) == At(ts, p).kind = "Int"

NoMatch == [ok |-> FALSE, pos |-> 0, val |-> <<>>]

Match(pos, val) == [ok |-> TRUE, pos |-> pos, val |-> val]

\* the grammar of SourceKey, without AS
ParseSourceKey(ts, p) ==
    IF IsIdent(ts, p) /\ Pn(ts, p + 1, ".")
    THEN (IF IsIdent(ts, p + 2)
          THEN Match(p + 3, [Source |-> At(ts, p).text,
                             Key |-> At(ts, p + 2).text])
          ELSE NoMatch)
    ELSE IF Pn(ts, p, ".") /\ IsIdent(ts, p + 1)
    THEN Match(p + 2, [Source |-> "", Key |-> At(ts, p + 1).text])
    ELSE NoMatch

\* the grammar of SourceRef: a source key, or else an alias
ParseSourceRef(ts, p) ==
    IF ParseSourceKey(ts, p).ok THEN ParseSourceKey(ts, p)
    ELSE IF IsIdent(ts, p) /\ ~Pn(ts, p + 1, ".")
    THEN Match(p + 1, [Alias |-> At(ts, p).text])
    ELSE NoMatch

\* @@ ( ',' @@ )* over source keys (keys = TRUE) or source references
RECURSIVE ParseList(_, _, _)
ParseList(ts, p, keys) ==
    Once(IF keys THEN ParseSourceKey(ts, p) ELSE ParseSourceRef(ts, p),
    LAMBDA first :
        IF ~first.ok THEN NoMatch
        ELSE IF Pn(ts, first.pos, ",")
        THEN Once(ParseList(ts, first.pos + 1, keys),
             LAMBDA rest :
                IF rest.ok THEN Match(rest.pos, <<first.val>> \o rest.val)
                ELSE NoMatch)
        ELSE Match(first.pos, <<first.val>>))

\* @@ ( ',' @@ )* over integer values
RECURSIVE ParseValues(_, _)
ParseValues(ts, p) ==
    IF ~IsInt(ts, p) THEN NoMatch
    ELSE IF Pn(ts, p + 1, ",")
    THEN Once(ParseValues(ts, p + 2),
         LAMBDA rest :
            IF rest.ok THEN Match(rest.pos, <<At(ts, p).val>> \o rest.val)
            ELSE NoMatch)
    ELSE Match(p + 1, <<At(ts, p).val>>)

\* the grammar of Constraint: a reference, then an operator and a value or
\* IN and a list of values
ParseConstraint(ts, p) ==
    Once(ParseSourceRef(ts, p),
    LAMBDA left :
        IF ~left.ok THEN NoMatch
        ELSE IF At(ts, left.pos).kind = "Operator"
        THEN (IF IsInt(ts, left.pos + 1)
              THEN Match(left.pos + 2,
                         [Left |-> left.val, In |-> FALSE,
                          Op |-> At(ts, left.pos).text,
                          Right |-> <<At(ts, left.pos + 1).val>>,
                          Values |-> <<>>])
              ELSE NoMatch)
        ELSE IF Kw(ts, left.pos, "IN") /\ Pn(ts, left.pos + 1, "(")
        THEN Once(ParseValues(ts, left.pos + 2),
             LAMBDA values :
                IF values.ok /\ Pn(ts, values.pos, ")")
                THEN Match(values.pos + 1,
                           [Left |-> left.val, In |-> TRUE, Op |-> "",
                            Right |-> <<>>, Values |-> values.val])
                ELSE NoMatch)
        ELSE NoMatch)

\* the grammar of OrderBy; Sources is <<>> and Direction is "" when nil
ParseOrderBy(ts, p) ==
    LET direction(q) ==
            IF \E dir \in {"ASC", "DSC", "DESC"} : Kw(ts, q, dir)
            THEN Match(q + 1, At(ts, q).text) ELSE Match(q, "")
    IN IF ~(Kw(ts, p, "ORDER") /\ Kw(ts, p + 1, "BY")) THEN NoMatch
       ELSE IF Kw(ts, p + 2, "RANDOM")
       THEN (IF Pn(ts, p + 3, "(") /\ Pn(ts, p + 4, ")")
             THEN Match(direction(p + 5).pos,
                        [Sources |-> <<>>, Random |-> TRUE,
                         Direction |-> direction(p + 5).val])
             ELSE NoMatch)
       ELSE Once(ParseList(ts, p + 2, FALSE),
            LAMBDA refs :
               IF ~refs.ok THEN NoMatch
               ELSE Match(direction(refs.pos).pos,
                          [Sources |-> refs.val, Random |-> FALSE,
                           Direction |-> direction(refs.pos).val]))

\* an optional part of the grammar that starts with a keyword: absent when
\* the keyword is, and an error when the keyword is there and the rest is not
Optional(ts, p, word, parsedPart) ==
    IF ~Kw(ts, p, word) THEN Match(p, <<>>)
    ELSE Once(parsedPart,
         LAMBDA part : IF part.ok THEN Match(part.pos, <<part.val>>)
                       ELSE NoMatch)

\* 'OFFSET' @Int and 'LIMIT' @Int
ParseInt(ts, p) ==
    IF IsInt(ts, p + 1) THEN Match(p + 2, At(ts, p + 1).val) ELSE NoMatch

\* the grammar of Syntax, from the modifiers on
ParseRest(ts, isLookup, count, distinct, keys, p) ==
    Once(Optional(ts, p, "WITHIN", ParseConstraint(ts, p + 1)),
    LAMBDA within : IF ~within.ok THEN NoMatch ELSE
    Once(Optional(ts, within.pos, "ORDER", ParseOrderBy(ts, within.pos)),
    LAMBDA orderBy : IF ~orderBy.ok THEN NoMatch ELSE
    Once(Optional(ts, orderBy.pos, "OFFSET", ParseInt(ts, orderBy.pos)),
    LAMBDA offset : IF ~offset.ok THEN NoMatch ELSE
    Once(Optional(ts, offset.pos, "LIMIT", ParseInt(ts, offset.pos)),
    LAMBDA limit : IF ~limit.ok THEN NoMatch ELSE
    Once(IF Pn(ts, limit.pos, ";") THEN limit.pos + 1 ELSE limit.pos,
    LAMBDA end :
        IF end # Len(ts) + 1 THEN NoMatch
        ELSE Match(end,
                   [Lookup |-> isLookup, Count |-> count,
                    Distinct |-> distinct, Query |-> ~isLookup,
                    Keys |-> keys, Within |-> within.val,
                    OrderBy |-> orderBy.val, Offset |-> offset.val,
                    Limit |-> limit.val, Semicolon |-> end # limit.pos]))))))

\* gSyntaxParser: the grammar of Syntax over the tokens of a text
ParseTokens(ts) ==
    IF \E i \in 1..Len(ts) : ts[i].kind = "Error" THEN NoMatch
    ELSE IF Kw(ts, 1, "QUERY")
    THEN ParseRest(ts, FALSE, FALSE, FALSE, <<>>, 2)
    ELSE IF Kw(ts, 1, "LOOKUP")
    THEN Once(IF Kw(ts, 2, "COUNT") THEN 3 ELSE 2,
         LAMBDA p :
         Once(IF Kw(ts, p, "DISTINCT") THEN p + 1 ELSE p,
         LAMBDA q :
         Once(ParseList(ts, q, TRUE),
         LAMBDA keys :
            IF ~keys.ok THEN NoMatch
            ELSE ParseRest(ts, TRUE, p = 3, q # p, keys.val, keys.pos))))
    ELSE NoMatch

\* Syntax.init: the syntax as init leaves it and the error it returns
SyntaxInit(s) ==
    IF s.Lookup THEN [syntax |-> s, err |-> ""]
    ELSE IF s.Count
    THEN [syntax |-> s,
          err |-> IF Len(s.Keys) # 1 THEN Err.CountContext ELSE ""]
    ELSE IF s.Distinct
    THEN [syntax |-> s,
          err |-> IF Len(s.Keys) # 1 THEN Err.DistinctContext ELSE ""]
    ELSE IF s.Query THEN [syntax |-> s, err |-> ""]
    ELSE IF Len(s.Keys) > 0
    THEN [syntax |-> [s EXCEPT !.Lookup = TRUE], err |-> ""]
    ELSE [syntax |-> [s EXCEPT !.Query = TRUE], err |-> ""]

\* ParseSyntax: ok says that no error is returned
ParseSyntax(text) ==
    Once(Lex(text),
    LAMBDA ts :
    Once(ParseTokens(ts),
    LAMBDA match :
        IF ~match.ok THEN [ok |-> FALSE, syntax |-> <<>>]
        ELSE Once(SyntaxInit(match.val),
             LAMBDA made :
                IF made.err # "" THEN [ok |-> FALSE, syntax |-> <<made.syntax>>]
                ELSE IF Validate(made.syntax) # ""
                THEN [ok |-> FALSE, syntax |-> <<>>]
                ELSE [ok |-> TRUE, syntax |-> <<made.syntax>>])))

\* SourceKey.String and SourceRef.String
SourceRefString(ref) ==
    IF "Alias" \in DOMAIN ref THEN <<ref.Alias>>
    ELSE IF ref.Source # "" THEN <<ref.Source, ".", ref.Key>>
    ELSE <<".", ref.Key>>

\* the texts of several parts one after the other, each after the separator
RECURSIVE Joined(_, _, _)
Joined(texts, separator, i) ==
    IF i > Len(texts) THEN <<>>
    ELSE (IF i > 1 THEN separator ELSE <<>>) \o texts[i]
         \o Joined(texts, separator, i + 1)

\* Constraint.String
ConstraintString(c) ==
    IF ConstraintValidate(c) # "" THEN <<>>
    ELSE IF c.In
    THEN SourceRefString(c.Left) \o <<Space, "IN", Space, "(">>
         \o Joined([i \in 1..Len(c.Values) |-> <<Itoa(c.Values[i])>>],
                   <<",", Space>>, 1)
         \o <<")">>
    ELSE SourceRefString(c.Left) \o <<Space, c.Op, Space, Itoa(c.Right[1])>>

\* OrderBy.String
OrderByString(o) ==
    LET out == IF o.Random THEN <<"RANDOM", "(", ")">>
               ELSE Joined([i \in 1..Len(o.Sources) |->
                               SourceRefString(o.Sources[i])], <<>>, 1)
        dir == IF o.Direction = "" THEN <<>>
               ELSE <<Space, IF o.Direction = "DSC" THEN "DESC"
                             ELSE o.Direction>>
    IN IF out \o dir # <<>> THEN <<"ORDER", Space, "BY", Space>> \o out \o dir
       ELSE <<>>

\* Syntax.String
String(s) ==
    IF Validate(s) # "" THEN <<>>
    ELSE (IF s.Query THEN <<"QUERY">>
          ELSE IF s.Lookup THEN <<"LOOKUP">>
          ELSE IF Len(s.Keys) > 0 THEN <<"LOOKUP">> ELSE <<"QUERY">>)
         \o (IF s.Lookup
             THEN (IF s.Count THEN <<Space, "COUNT">> ELSE <<>>)
                  \o (IF s.Distinct THEN <<Space, "DISTINCT">> ELSE <<>>)
                  \o Joined([i \in 1..Len(s.Keys) |->
                                <<Space>> \o SourceRefString(s.Keys[i])],
                            <<",">>, 1)
             ELSE <<>>)
         \o (IF s.Within # <<>>
             THEN <<Space, "WITHIN", Space>> \o ConstraintString(s.Within[1])
             ELSE <<>>)
         \o (IF s.OrderBy # <<>>
             THEN <<Space>> \o OrderByString(s.OrderBy[1]) ELSE <<>>)
         \o (IF s.Offset # <<>> THEN <<Space, Itoa(s.Offset[1])>> ELSE <<>>)
         \o (IF s.Limit # <<>> THEN <<Space, Itoa(s.Limit[1])>> ELSE <<>>)
         \o (IF s.Semicolon THEN <<";">> ELSE <<>>)

\* the values of OrderBy that the grammar yields
OrderBys ==
    [Sources : {<<>>}, Random : {TRUE}, Direction : {"", "DSC"}]
    \cup [Sources : {[i \in 1..n |-> [Source |-> "w", Key |-> "a"]] :
                       n \in 1..MaxOrderBy},
          Random : {FALSE}, Direction : {"", "DSC"}]

\* the statements of the grammar that ParseSyntax accepts, as they parse
EqlStatements ==
    {s \in [Lookup : BOOLEAN, Count : BOOLEAN, Distinct : BOOLEAN,
            Query : BOOLEAN,
            Keys : UNION {[1..n -> EqlRefs] : n \in 0..MaxEqlKeys},
            Within : {<<>>}
               \cup {<<InConstraint([Source |-> "w", Key |-> "a"], values)>> :
                       values \in UNION {[1..n -> EqlInts] :
                                           n \in 1..MaxInValues}},
            OrderBy : {<<>>} \cup {<<o>> : o \in OrderBys},
            Offset : {<<>>} \cup {<<n>> : n \in EqlInts},
            Limit : {<<>>} \cup {<<n>> : n \in EqlInts},
            Semicolon : {FALSE}] :
        /\ s.Lookup # s.Query
        /\ s.Query => (s.Keys = <<>> /\ ~s.Count /\ ~s.Distinct)
        /\ Validate(s) = ""}

\* the text of a statement in the grammar of Syntax: the keys and the ORDER
\* BY references separated by commas, OFFSET and LIMIT before their numbers
Eql(s) ==
    (IF s.Query THEN <<"QUERY">>
     ELSE <<"LOOKUP">>
          \o (IF s.Count THEN <<Space, "COUNT">> ELSE <<>>)
          \o (IF s.Distinct THEN <<Space, "DISTINCT">> ELSE <<>>)
          \o <<Space>>
          \o Joined([i \in 1..Len(s.Keys) |-> SourceRefString(s.Keys[i])],
                    <<",", Space>>, 1))
    \o (IF s.Within # <<>>
        THEN <<Space, "WITHIN", Space>> \o ConstraintString(s.Within[1])
        ELSE <<>>)
    \o (IF s.OrderBy # <<>>
        THEN <<Space, "ORDER", Space, "BY", Space>>
             \o (IF s.OrderBy[1].Random THEN <<"RANDOM", "(", ")">>
                 ELSE Joined([i \in 1..Len(s.OrderBy[1].Sources) |->
                                 SourceRefString(s.OrderBy[1].Sources[i])],
                             <<",", Space>>, 1))
             \o (IF s.OrderBy[1].Direction = "" THEN <<>>
                 ELSE <<Space, s.OrderBy[1].Direction>>)
        ELSE <<>>)
    \o (IF s.Offset # <<>> THEN <<Space, "OFFSET", Space, Itoa(s.Offset[1])>>
        ELSE <<>>)
    \o (IF s.Limit # <<>> THEN <<Space, "LIMIT", Space, Itoa(s.Limit[1])>>
        ELSE <<>>)
    \o (IF s.Semicolon THEN <<";">> ELSE <<>>)

\* ParseSyntax(q) for a statement q of the grammar
ParseStatement(s) ==
    /\ checked = <<>>
    /\ input = <<>>
    /\ input' = <<Eql(s)>>
    /\ parsed' = <<ParseSyntax(input'[1])>>
    /\ UNCHANGED <<checked, printed, reparsed>>

\* parsed.String()
PrintParsed ==
    /\ parsed # <<>>
    /\ parsed[1].ok
    /\ printed = <<>>
    /\ printed' = <<String(parsed[1].syntax[1])>>
    /\ UNCHANGED <<checked, input, parsed, reparsed>>

\* ParseSyntax(parsed.String())
Reparse ==
    /\ printed # <<>>
    /\ reparsed = <<>>
    /\ reparsed' = <<ParseSyntax(printed[1])>>
    /\ UNCHANGED <<checked, input, parsed, printed>>

\* OrderBy.IsDESC: two directions are the same order when both or neither is
\* descending
IsDESC(o) == o.Direction # "" /\ o.Direction # "ASC"

\* two Syntax values that stand for the same statement
Equivalent(a, b) ==
    /\ [a EXCEPT !.OrderBy = <<>>] = [b EXCEPT !.OrderBy = <<>>]
    /\ (a.OrderBy = <<>>) <=> (b.OrderBy = <<>>)
    /\ a.OrderBy # <<>> =>
          /\ a.OrderBy[1].Sources = b.OrderBy[1].Sources
          /\ a.OrderBy[1].Random = b.OrderBy[1].Random
          /\ IsDESC(a.OrderBy[1]) = IsDESC(b.OrderBy[1])

\* C16: for every valid statement q, ParseSyntax(q).String() is valid EQL and
\* parses again to a Syntax equivalent to ParseSyntax(q)
C16_StringRoundTrip ==
    reparsed # <<>> =>
        /\ reparsed[1].ok
        /\ Equivalent(reparsed[1].syntax[1], parsed[1].syntax[1])

NextSyntax ==
    \/ checked = <<>> /\ input = <<>> /\ \E s \in SyntaxValues : CallValidate(s)
    \/ checked = <<>> /\ input = <<>>
          /\ \E s \in EqlStatements : ParseStatement(s)
    \/ PrintParsed
    \/ Reparse

SpecSyntax ==
    Init /\ [][NextSyntax /\ UNCHANGED <<graphVars, planVars, engineVars,
                                          compileVars, tableColumns, txVars,
                                          ddlVars, cfgCall, moreVars>>]_vars

(***************************************************************************)
(* Config and its validation                                               *)
(***************************************************************************)
\* strcase.ToSnake on the names and keys used here
Snake(x) == IF x = "BeEql" THEN "be_eql" ELSE x

\* mustSnakeCase
mustSnakeCase(x) == IF Snake(x) # x THEN Err.NotSnakeCased ELSE ""

ConfigNames == {"a", "b"}

\* SourceConfigValue: a string value or a linked value (kind is "empty" for
\* a value with no field set)
ConfigValues ==
    {[kind |-> "string", source |-> "", key |-> "k"]}
    \cup {[kind |-> "linked", source |-> n, key |-> SourceIdKey] :
            n \in ConfigNames}

\* the "linked table exists" validator: the linked source is declared before
\* the source of the value
LinkedExists_Self(c, idx, scv) ==
    IF scv.kind = "linked"
       /\ ~\E i \in 1..idx : c.Sources[i].Name = scv.source
    THEN Err.ParentNotFound ELSE ""

LinkedExists(c, idx, scv) ==
    IF scv.kind = "linked"
       /\ ~\E i \in 1..(idx - 1) : c.Sources[i].Name = scv.source
    THEN Err.ParentNotFound ELSE ""

\* gConfigValidators.values on one value, in their order
ValueErr(c, idx, scv) ==
    IF scv.kind = "empty" THEN Err.EmptySourceValue
    ELSE IF scv.kind = "linked" /\ scv.source = ""
    THEN Err.EmptySourceValueKey
    ELSE IF scv.key = "" THEN Err.EmptySourceValueKey
    ELSE IF mustSnakeCase(scv.key) # "" THEN mustSnakeCase(scv.key)
    ELSE LinkedExists(c, idx, scv)

\* the loop over sc.Values: the first error
RECURSIVE ValuesErr(_, _, _)
ValuesErr(c, idx, jdx) ==
    IF jdx > Len(c.Sources[idx].Values) THEN ""
    ELSE IF ValueErr(c, idx, c.Sources[idx].Values[jdx]) # ""
    THEN ValueErr(c, idx, c.Sources[idx].Values[jdx])
    ELSE ValuesErr(c, idx, jdx + 1)

\* the test of sc.Parent against dataSources, the names of the sources before
ParentDeclared_Skipped(c, idx) == ""

ParentDeclared(c, idx) ==
    IF c.Sources[idx].Parent # <<>>
       /\ c.Sources[idx].Parent[1]
             \notin {c.Sources[i].Name : i \in 1..(idx - 1)}
    THEN Err.ParentNotFound ELSE ""

\* gConfigValidators.sources on one source, then its values and its parent
SourceErr(c, idx) ==
    IF c.Sources[idx].Name = "" THEN Err.UnnamedSource
    ELSE IF mustSnakeCase(c.Sources[idx].Name) # ""
    THEN mustSnakeCase(c.Sources[idx].Name)
    ELSE IF Len(c.Sources[idx].Values) = 0 /\ c.Sources[idx].Parent = <<>>
    THEN Err.NoSourceValues
    ELSE IF c.Sources[idx].Parent # <<>>
            /\ mustSnakeCase(c.Sources[idx].Parent[1]) # ""
    THEN mustSnakeCase(c.Sources[idx].Parent[1])
    ELSE IF ValuesErr(c, idx, 1) # "" THEN ValuesErr(c, idx, 1)
    ELSE ParentDeclared(c, idx)

\* the loop over c.Sources: the first error
RECURSIVE SourcesErr(_, _)
SourcesErr(c, idx) ==
    IF idx > Len(c.Sources) THEN ""
    ELSE IF SourceErr(c, idx) # "" THEN SourceErr(c, idx)
    ELSE SourcesErr(c, idx + 1)

\* Config.Validate: "" when the config is accepted
ConfigValidate(c) ==
    IF c.Prefix # "" /\ mustSnakeCase(c.Prefix) # ""
    THEN mustSnakeCase(c.Prefix)
    ELSE IF Len(c.Sources) = 0 THEN Err.NoSources
    ELSE SourcesErr(c, 1)

\* cSources.addSource, source.order: the key of the parent first, then the
\* keys of the values in order
SourceOrder(sc) ==
    (IF sc.Parent # <<>> THEN <<sc.Parent[1] \o "_" \o SourceIdKey>> ELSE <<>>)
    \o [j \in 1..Len(sc.Values) |->
           IF sc.Values[j].kind = "linked"
           THEN sc.Values[j].source \o "_" \o sc.Values[j].key
           ELSE sc.Values[j].key]

\* cSource.init, verify: the names a unique or index tuple may hold
Verified(sc) == {sc.Name, SourceIdKey} \cup Range(SourceOrder(sc))

\* cSource.init: the loops over c.unique and c.indexes
InitErr(sc) ==
    IF \E i \in 1..Len(sc.Unique) : ~(Range(sc.Unique[i]) \subseteq Verified(sc))
    THEN Err.UnknownKey
    ELSE IF \E i \in 1..Len(sc.Index) :
               ~(Range(sc.Index[i]) \subseteq Verified(sc))
    THEN Err.UnknownKey
    ELSE ""

\* cSources.addSource on the source at idx, after the sources before it
addSource(c, idx) ==
    IF c.Sources[idx].Name \in {c.Sources[i].Name : i \in 1..(idx - 1)}
    THEN Err.SourceExists
    ELSE IF c.Sources[idx].Name = "" THEN Err.UnnamedSource
    ELSE IF c.Sources[idx].Parent # <<>>
            /\ c.Sources[idx].Parent[1]
                  \notin {c.Sources[i].Name : i \in 1..(idx - 1)}
    THEN Err.ParentSourceNotFound
    ELSE IF \E j \in 1..Len(c.Sources[idx].Values) :
               c.Sources[idx].Values[j].kind = "empty"
    THEN Err.EmptySourceValue
    ELSE IF Len(c.Sources[idx].Values) = 0 /\ c.Sources[idx].Parent = <<>>
    THEN Err.NoSourceValues
    ELSE IF \E j \in 1..Len(c.Sources[idx].Values) :
               /\ c.Sources[idx].Values[j].kind = "linked"
               /\ idx > 1
               /\ c.Sources[idx].Values[j].source # c.Sources[1].Name
               /\ c.Sources[idx].Values[j].source
                     \in Range(c.Sources[idx].Parent)
    THEN Err.AddEdge
    ELSE InitErr(c.Sources[idx])

\* enjinql.init, the loop over the sources of the config: the first error
RECURSIVE addSources(_, _)
addSources(c, idx) ==
    IF idx > Len(c.Sources) THEN ""
    ELSE IF addSource(c, idx) # "" THEN addSource(c, idx)
    ELSE addSources(c, idx + 1)

\* what a call that validates a Config was given and returned: the error, ""
\* when nil, and whether a config or an engine was returned
ConfigCall(op, data, err) ==
    [op |-> op, config |-> data, err |-> err, returned |-> err = ""]

\* Config.Validate
CallConfigValidate(c) ==
    /\ cfgCall = <<>>
    /\ cfgCall' = [ConfigCall("Validate", <<c>>, ConfigValidate(c))
                      EXCEPT !.returned = FALSE]

\* ParseConfig on JSON data that holds a config, or on data that is no JSON
\* (data = <<>>)
ParseConfig(data) ==
    /\ cfgCall = <<>>
    /\ cfgCall' = IF data = <<>>
                  THEN ConfigCall("ParseConfig", data, Err.InvalidJSON)
                  ELSE ConfigCall("ParseConfig", data, ConfigValidate(data[1]))

\* Config.Make
Make(c) ==
    /\ cfgCall = <<>>
    /\ cfgCall' = ConfigCall("Make", <<c>>, ConfigValidate(c))

\* New, as far as the sources of the config are added
NewSources(c) ==
    /\ cfgCall = <<>>
    /\ cfgCall' = ConfigCall("New", <<c>>,
                             IF ConfigValidate(c) # "" THEN ConfigValidate(c)
                             ELSE addSources(c, 1))

\* the sources a Config can hold, without unique and index tuples
PlainSources ==
    [Name : ConfigNames,
     Parent : {<<>>, <<"a">>},
     Values : UNION {[1..n -> ConfigValues] : n \in 0..MaxConfigValues},
     Unique : {<<>>}, Index : {<<>>}]

\* the unique and index tuples a source can hold
IndexTuples ==
    UNION {[1..n -> [1..1 -> {"k", SourceIdKey, "a", "x"}]] :
             n \in 0..MaxConfigTuples}

\* the sources with one string value and with unique and index tuples
IndexedSources ==
    [Name : ConfigNames, Parent : {<<>>},
     Values : {<<[kind |-> "string", source |-> "", key |-> "k"]>>},
     Unique : IndexTuples, Index : IndexTuples]

\* the configs handed to the calls: any sources under a snake-cased prefix,
\* one source under a prefix that is not, and one source with unique and
\* index tuples
Configs ==
    [Prefix : {"be_eql"},
     Sources : UNION {[1..n -> PlainSources] : n \in 0..MaxConfigSources}]
    \cup [Prefix : {"BeEql"}, Sources : [1..1 -> PlainSources]]
    \cup [Prefix : {"be_eql"}, Sources : [1..1 -> IndexedSources]]

NextConfig ==
    \/ cfgCall = <<>> /\ \E c \in Configs : CallConfigValidate(c)
    \/ cfgCall = <<>> /\ \E data \in {<<>>} \cup {<<c>> : c \in Configs} :
                            ParseConfig(data)
    \/ cfgCall = <<>> /\ \E c \in Configs : Make(c)
    \/ cfgCall = <<>> /\ \E c \in Configs : NewSources(c)

SpecConfig ==
    Init /\ [][NextConfig /\ UNCHANGED <<graphVars, planVars, engineVars,
                                          compileVars, tableColumns, txVars,
                                          ddlVars, syntaxVars, moreVars>>]_vars

(***************************************************************************)
(* Properties of Config validation                                         *)
(***************************************************************************)
\* the config of the last call, when it was given one
Called(ops) == cfgCall # <<>> /\ cfgCall.op \in ops /\ cfgCall.config # <<>>

\* the names of the sources declared before the source at idx
Earlier(c, idx) == {c.Sources[i].Name : i \in 1..(idx - 1)}

\* the sources that the source at idx names as its parent or in its linked
\* values
References(c, idx) ==
    Range(c.Sources[idx].Parent)
    \cup {c.Sources[idx].Values[j].source :
            j \in {k \in 1..Len(c.Sources[idx].Values) :
                     c.Sources[idx].Values[k].kind = "linked"}}

\* the sources that name a source not declared strictly earlier
ForwardRefs(c) ==
    {idx \in 1..Len(c.Sources) : ~(References(c, idx) \subseteq Earlier(c, idx))}

\* some other error is found before the source at idx is looked at
DefectBefore(c, idx) ==
    \/ Snake(c.Prefix) # c.Prefix
    \/ \E i \in 1..(idx - 1) :
          Len(c.Sources[i].Values) = 0 /\ c.Sources[i].Parent = <<>>

\* C18: Validate rejects every config in which a Linked value or a Parent
\* names a source that is not declared strictly earlier, with ParentNotFound
\* unless another error is found first, and ParseConfig and Make return no
\* config for it
C18_ForwardRejected ==
    (Called({"Validate", "ParseConfig", "Make"})
     /\ ForwardRefs(cfgCall.config[1]) # {}) =>
        LET c == cfgCall.config[1]
            first == CHOOSE idx \in ForwardRefs(c) :
                        \A other \in ForwardRefs(c) : idx <= other
        IN /\ cfgCall.err # ""
           /\ ~cfgCall.returned
           /\ (cfgCall.err = Err.ParentNotFound) <=> ~DefectBefore(c, first)

\* Make was called on a config whose first source links the second one, and
\* on one whose first source has a parent that is declared later
C18_Witness ==
    /\ Called({"Make"})
    /\ Len(cfgCall.config[1].Sources) = 2
    /\ cfgCall.config[1].Sources[2].Name \in References(cfgCall.config[1], 1)
    /\ cfgCall.config[1].Sources[1].Name # cfgCall.config[1].Sources[2].Name
    /\ cfgCall.err = Err.ParentNotFound
    /\ ~cfgCall.returned

\* the relationship graph of a config as gSourceGraph holds it: one node for
\* every source name, made from the first source declared with it, that
\* depends on its parent and on its linked sources
ConfigPending(c) ==
    [n \in {c.Sources[i].Name : i \in 1..Len(c.Sources)} |->
        References(c, CHOOSE i \in 1..Len(c.Sources) :
                         /\ c.Sources[i].Name = n
                         /\ n \notin Earlier(c, i))
        \cap {c.Sources[i].Name : i \in 1..Len(c.Sources)}]

\* C19: a config whose parent and link relationships hold a cycle is rejected
\* by Validate
C19_CycleRejected ==
    (Called({"Validate", "ParseConfig", "Make", "New"})
     /\ ~Resolves(ConfigPending(cfgCall.config[1]))) =>
        cfgCall.err # ""

\* Validate was called on two sources that link each other
C19_Witness ==
    /\ Called({"Validate"})
    /\ Len(cfgCall.config[1].Sources) = 2
    /\ cfgCall.config[1].Sources[1].Name # cfgCall.config[1].Sources[2].Name
    /\ cfgCall.config[1].Sources[2].Name \in References(cfgCall.config[1], 1)
    /\ cfgCall.config[1].Sources[1].Name \in References(cfgCall.config[1], 2)
    /\ cfgCall.config[1].Sources[1].Parent = <<>>
    /\ cfgCall.config[1].Sources[2].Parent = <<>>
    /\ ~Resolves(ConfigPending(cfgCall.config[1]))
    /\ cfgCall.err # ""

\* the sources with a unique or index tuple that names no column of theirs
BadTuples(c) ==
    {idx \in 1..Len(c.Sources) :
        \E tuple \in Range(c.Sources[idx].Unique)
                        \cup Range(c.Sources[idx].Index) :
            ~(Range(tuple) \subseteq
                 {SourceIdKey} \cup Range(SourceOrder(c.Sources[idx])))}

\* C20: config validation rejects every config in which a Unique or Index
\* tuple of a source names a key that is no column of that source
C20_TupleKeysAreColumns ==
    (Called({"Validate", "ParseConfig", "Make", "New"})
     /\ BadTuples(cfgCall.config[1]) # {}) =>
        cfgCall.err # ""

(***************************************************************************)
(* PrepareSyntax, Value.makeOther and Operator.make: the right-hand side   *)
(* of a constraint, from the statement text to the bound arguments         *)
(***************************************************************************)
\* the longest string written or given
MaxText == 3
\* the longest argument vector
MaxArgs == 2
\* the highest placeholder index written
MaxPlaceholder == 2

\* a string is the sequence of its pieces: a letter, a space, a quote, a
\* brace, a percent sign, or a run of digits or a keyword
TextChars == {"a", " "}

Texts == UNION {[1..n -> TextChars] : n \in 0..MaxText}

Quote == "\""

\* interface{} values: a string, an int, given by its decimal digits, or a
\* column of the builder, given by its name
GoString(v) == [type |-> "string", v |-> v]

GoInt(n) == [type |-> "int", v |-> <<Itoa(n)>>]

GoColumn(key) == [type |-> "column", v |-> <<key>>]

\* the argument vectors a caller gives
ArgValues == {GoString(<<"a">>), GoInt(1)}

ArgVectors == UNION {[1..n -> ArgValues] : n \in 0..MaxArgs}

\* the right-hand sides written in statements: a placeholder, a string
\* literal, an integer, a boolean, a source reference
PlaceholderText(n) == <<"{", Itoa(n), "}">>

\* strconv.Quote, on strings without quotes or escapes
StrconvQuote(text) == <<Quote>> \o text \o <<Quote>>

RightTexts ==
    {PlaceholderText(n) : n \in 0..MaxPlaceholder}
        \cup {StrconvQuote(t) : t \in Texts}
        \cup {<<Itoa(1)>>, <<"TRUE">>, <<".", "a">>}

\* parsePlaceholder on the piece between the braces
parsePlaceholder(piece) == CHOOSE n \in 0..(MaxPlaceholder + 1) : Itoa(n) = piece

\* fmt.Sprintf of one verb: %[pos]q for a string, %[pos]v otherwise
Sprintf(arg) ==
    IF arg.type = "string" THEN StrconvQuote(arg.v) ELSE arg.v

\* rplPlaceholders and the fmt.Sprintf that follows it, outside quotes; the
\* text of a quoted string is copied as it is
RECURSIVE rplPlaceholders(_, _, _, _)
rplPlaceholders(text, i, quoted, argv) ==
    IF i > Len(text) THEN <<>>
    ELSE IF text[i] = Quote
    THEN <<Quote>> \o rplPlaceholders(text, i + 1, ~quoted, argv)
    ELSE IF ~quoted /\ text[i] = "{" /\ i + 2 <= Len(text)
            /\ parsePlaceholder(text[i + 1]) > 0
            /\ parsePlaceholder(text[i + 1]) <= Len(argv)
    THEN Sprintf(argv[parsePlaceholder(text[i + 1])])
         \o rplPlaceholders(text, i + 3, quoted, argv)
    ELSE <<text[i]>> \o rplPlaceholders(text, i + 1, quoted, argv)

\* PrepareSyntax: the format itself when no argument is given
PrepareSyntax(format, argv) ==
    IF Len(argv) = 0 THEN format ELSE rplPlaceholders(format, 1, FALSE, argv)

\* the grammar of Value on the prepared right-hand side; Kind names the field
\* of Value that is set
ParseValue(text) ==
    IF text[1] = "{" THEN [Kind |-> "Placeholder", Val |-> text]
    ELSE IF text[1] = Quote THEN [Kind |-> "Text", Val |-> text]
    ELSE IF text[1] = "." THEN [Kind |-> "SourceRef", Val |-> <<text[2]>>]
    ELSE IF text[1] \in {"TRUE", "FALSE"} THEN [Kind |-> "Bool", Val |-> text]
    ELSE [Kind |-> "Int", Val |-> text]

\* strconv.Unquote, on strings without escapes
StrconvUnquote(text) == SubSeq(text, 2, Len(text) - 1)

\* Value.makeOther
makeOther(v) ==
    CASE v.Kind = "SourceRef" -> GoColumn(v.Val[1])
      [] v.Kind = "Placeholder" -> GoString(v.Val)
      [] v.Kind = "Text" -> GoString(StrconvUnquote(v.Val))
      [] v.Kind = "Int" -> GoInt(CHOOSE n \in 0..9 : Itoa(n) = v.Val[1])
      [] v.Kind = "Bool" -> GoString(v.Val)

\* Operator: the comparison written, Not for NOT and Nt for !
CompareOps == {"==", "!=", ">=", "<=", ">", "<"}

StringOps == {"LIKE", "^=", "$=", "*=", "~="}

OperatorValues ==
    [Op : CompareOps, Not : {FALSE}, Nt : {FALSE}]
        \cup {o \in [Op : StringOps, Not : BOOLEAN, Nt : BOOLEAN] :
                ~(o.Not /\ o.Nt)}

\* strings.Fields
RECURSIVE Fields(_)
Fields(v) ==
    IF v = <<>> THEN <<>>
    ELSE IF v[1] = " " THEN Fields(Tail(v))
    ELSE LET last == CHOOSE k \in 1..Len(v) :
                        /\ \A i \in 1..k : v[i] # " "
                        /\ k = Len(v) \/ v[k + 1] = " "
         IN <<SubSeq(v, 1, last)>> \o Fields(SubSeq(v, last + 1, Len(v)))

\* a sqlbuilder.Condition: the comparisons of the column, OR-combined
Cond(cmp, arg) == [err |-> "", conds |-> <<[cmp |-> cmp, arg |-> arg]>>]

CondFail(err) == [err |-> err, conds |-> <<>>]

\* c.Like or c.NotLike
Like(o, pattern) ==
    Cond(IF o.Not \/ o.Nt THEN "NOT LIKE" ELSE "LIKE", GoString(pattern))

makeCS(o, right) ==
    IF right.type = "string" THEN Like(o, <<"%">> \o right.v \o <<"%">>)
    ELSE CondFail(Err.OpStringRequired)

makeCF(o, right) ==
    IF right.type = "string"
    THEN LET fields == Fields(right.v)
         IN IF Len(fields) = 0 THEN CondFail(Err.OpStringRequired)
            ELSE [err |-> "",
                  conds |-> [i \in 1..Len(fields) |->
                                Like(o, <<"%">> \o fields[i] \o <<"%">>).conds[1]]]
    ELSE CondFail(Err.OpStringRequired)

makeSW_IgnoresNot(o, right) ==
    IF right.type = "string"
    THEN Cond("LIKE", GoString(right.v \o <<"%">>))
    ELSE CondFail(Err.OpStringRequired)

makeSW(o, right) ==
    IF right.type = "string" THEN Like(o, right.v \o <<"%">>)
    ELSE CondFail(Err.OpStringRequired)

makeEW(o, right) ==
    IF right.type = "string" THEN Like(o, <<"%">> \o right.v)
    ELSE CondFail(Err.OpStringRequired)

makeLK(o, right) ==
    IF right.type = "string" THEN Like(o, right.v)
    ELSE CondFail(Err.OpStringRequired)

\* Operator.make
OperatorMake(o, right) ==
    CASE o.Op = "==" -> Cond("=", right)
      [] o.Op = "!=" -> Cond("<>", right)
      [] o.Op = "<=" -> Cond("<=", right)
      [] o.Op = ">=" -> Cond(">=", right)
      [] o.Op = "<" -> Cond("<", right)
      [] o.Op = ">" -> Cond(">", right)
      [] o.Op = "*=" -> makeCS(o, right)
      [] o.Op = "~=" -> makeCF(o, right)
      [] o.Op = "^=" -> makeSW(o, right)
      [] o.Op = "$=" -> makeEW(o, right)
      [] o.Op = "LIKE" -> makeLK(o, right)

\* Constraint.make for "<column> <op> <value>"
ConstraintMake(o, v) == OperatorMake(o, makeOther(v))

\* the serializer of the builder: every value compared is bound as "?", a
\* column is written by its name
RECURSIVE ToSqlText(_, _)
ToSqlText(conds, i) ==
    IF i > Len(conds) THEN <<>>
    ELSE (IF i > 1 THEN <<" OR ">> ELSE <<>>)
         \o <<"k", conds[i].cmp,
              IF conds[i].arg.type = "column" THEN conds[i].arg.v[1] ELSE "?">>
         \o ToSqlText(conds, i + 1)

RECURSIVE ToSqlArgs(_, _)
ToSqlArgs(conds, i) ==
    IF i > Len(conds) THEN <<>>
    ELSE (IF conds[i].arg.type = "column" THEN <<>> ELSE <<conds[i].arg>>)
         \o ToSqlArgs(conds, i + 1)

\* enjinql.ToSQL on "LOOKUP .id WITHIN .k <op> <right>" with the arguments
\* argv: PrepareSyntax, ParseSyntax, then the condition of the WHERE clause
ToSqlConstraint(o, right, argv) ==
    /\ condCall = <<>>
    /\ LET prepared == PrepareSyntax(right, argv)
           other == makeOther(ParseValue(prepared))
           made == ConstraintMake(o, ParseValue(prepared))
       IN condCall' = <<[Operator |-> o, right |-> right, argv |-> argv,
                          prepared |-> prepared, other |-> other,
                          err |-> made.err, conds |-> made.conds,
                          query |-> ToSqlText(made.conds, 1),
                          args |-> ToSqlArgs(made.conds, 1)]>>
    /\ UNCHANGED <<graphVars, planVars, engineVars, compileVars, tableColumns,
                   txVars, ddlVars, syntaxVars, cfgCall, declared, addRet,
                   nameCall>>

NextValue ==
    \E o \in OperatorValues, right \in RightTexts, argv \in ArgVectors :
        ToSqlConstraint(o, right, argv)

SpecValue == Init /\ [][NextValue]_vars

\* the placeholder tokens a text or an argument can hold
IsPlaceholder(text) ==
    Len(text) = 3 /\ text[1] = "{" /\ text[3] = "}"

\* C21: a statement that ToSQL compiles without error returns no {N}
\* placeholder, neither in the SQL text nor as an argument value
C21_NoPlaceholderLeft ==
    (condCall # <<>> /\ condCall[1].err = "") =>
        /\ \A i \in 1..Len(condCall[1].query) : condCall[1].query[i] # "{"
        /\ \A i \in 1..Len(condCall[1].args) :
              ~(/\ condCall[1].args[i].type = "string"
                /\ IsPlaceholder(condCall[1].args[i].v))

\* the LIKE pattern the operator makes of a string
Pattern(op, v) ==
    CASE op = "LIKE" -> v
      [] op = "^=" -> v \o <<"%">>
      [] op = "$=" -> <<"%">> \o v
      [] op = "*=" -> <<"%">> \o v \o <<"%">>
      [] op = "~=" -> <<"%">> \o v \o <<"%">>

\* a string without its spaces
RECURSIVE Unspaced(_)
Unspaced(v) ==
    IF v = <<>> THEN <<>>
    ELSE (IF v[1] = " " THEN <<>> ELSE <<v[1]>>) \o Unspaced(Tail(v))

RECURSIVE Concat(_)
Concat(texts) == IF texts = <<>> THEN <<>> ELSE texts[1] \o Concat(Tail(texts))

\* the whitespace-delimited fields of a string: none is empty or holds a
\* space, and together they are the string without its spaces
IsFieldsOf(fields, v) ==
    /\ \A i \in 1..Len(fields) :
          fields[i] # <<>> /\ \A j \in 1..Len(fields[i]) : fields[i][j] # " "
    /\ Concat(fields) = Unspaced(v)
    /\ Len(fields) = Cardinality({i \in 1..Len(v) :
                          v[i] # " " /\ (i = 1 \/ v[i - 1] = " ")})

MaxSchemaSources == 3
\* the most values of one source
MaxSchemaValues == 1

\* the names of the sources, in the order declared
SchemaNames == <<"a", "b", "c", "d", "e">>

\* cSources.lookup: the names of the sources added
DeclaredNames == {declared[i].Name : i \in 1..Len(declared)}

\* cSources.getPrimarySourceName: "" before the first source is added
getPrimarySourceName == IF Len(declared) > 0 THEN declared[1].Name ELSE ""

\* the values a source can declare: a string value, or a value linked to a
\* key of a source declared before it
SchemaValues ==
    {[kind |-> "string", source |-> "", key |-> "k"]}
        \cup [kind : {"linked"}, source : DeclaredNames, key : {SourceIdKey, "k"}]

\* the sources a Config can declare next
SchemaSources ==
    [Name : {SchemaNames[Len(declared) + 1]},
     Parent : {<<>>} \cup {<<p>> : p \in DeclaredNames},
     Values : UNION {[1..n -> SchemaValues] : n \in 0..MaxSchemaValues},
     Unique : {<<>>}, Index : {<<>>}]

\* the linked values of a source that name another source than the primary
\* one, by their place among the values
RecordedLinks(sc) ==
    {j \in 1..Len(sc.Values) :
        /\ sc.Values[j].kind = "linked"
        /\ sc.Values[j].source # getPrimarySourceName}

\* cSources.addSource, source.node: the parent join and the link joins, the
\* last value linked to a source setting the join kept for that source
SourceNode(sc) ==
    [name |-> sc.Name,
     parent |-> IF sc.Parent = <<>> THEN NilJoin
                ELSE newSourceJoin(sc.Name, sc.Parent[1] \o "_" \o SourceIdKey,
                                   newSourceTableKey(sc.Parent[1], SourceIdKey)),
     link |-> [l \in {sc.Values[j].source : j \in RecordedLinks(sc)} |->
                  LET last == CHOOSE j \in RecordedLinks(sc) :
                                  /\ sc.Values[j].source = l
                                  /\ \A k \in RecordedLinks(sc) :
                                        sc.Values[k].source = l => k <= j
                  IN newSourceJoin(l, sc.Values[last].key,
                                   newSourceTableKey(sc.Name,
                                                     l \o "_" \o SourceIdKey))]]

\* graph.AddEdge on the undirected graph: both vertices must exist and no
\* edge may join them yet
AddEdgeErr(V, E, a, b) ==
    IF a \notin V \/ b \notin V \/ HasEdge(E, a, b) THEN Err.AddEdge ELSE ""

\* _addVertexUnsafe, the loop over node.link in the order of the map: every
\* (edges, error) it can end with
RECURSIVE addLinkEdges(_, _, _, _)
addLinkEdges(V, E, node, todo) ==
    IF todo = {} THEN {[E |-> E, err |-> ""]}
    ELSE UNION {IF AddEdgeErr(V, E, node.name, node.link[l].table) # ""
                THEN {[E |-> E, err |-> Err.AddEdge]}
                ELSE addLinkEdges(V,
                                  AddEdgeUnsafe(E, node.name, node.link[l].table,
                                                node.link[l]),
                                  node, todo \ {l}) :
                  l \in todo}

\* _addVertexUnsafe: the vertex, the edge from the parent, then the edges to
\* the linked sources
addVertexUnsafe(node) ==
    LET V == graphV \cup {node.name}
    IN IF node.name \in graphV
       THEN {[V |-> graphV, E |-> graphE, err |-> Err.AddEdge]}
       ELSE IF node.parent # NilJoin
               /\ AddEdgeErr(V, graphE, node.parent.other.table, node.name) # ""
       THEN {[V |-> V, E |-> graphE, err |-> Err.AddEdge]}
       ELSE {[V |-> V, E |-> r.E, err |-> r.err] :
               r \in addLinkEdges(V,
                                  IF node.parent # NilJoin
                                  THEN AddEdgeUnsafe(graphE,
                                                     node.parent.other.table,
                                                     node.name, node.parent)
                                  ELSE graphE,
                                  node, DOMAIN node.link)}

\* gSourceGraph.Add of one node: every graph it can leave and the error
GraphAdd(node) ==
    IF node.name \in DOMAIN lookup
    THEN {[primary |-> primary, nodes |-> nodes, lookup |-> lookup,
           V |-> graphV, E |-> graphE, err |-> ""]}
    ELSE {[primary |-> IF Len(nodes) = 0 THEN node.name ELSE primary,
           nodes |-> Append(nodes, node),
           lookup |-> [n \in DOMAIN lookup \cup {node.name} |->
                          IF n = node.name THEN node ELSE lookup[n]],
           V |-> r.V, E |-> r.E, err |-> r.err] :
            r \in addVertexUnsafe(node)}

\* what the last addSource call was given and returned
AddReturn(sc, err) == [called |-> TRUE, sc |-> <<sc>>, err |-> err]

\* the checks of cSources.addSource before the node is added to the graph
AddSourceErr(sc) ==
    IF sc.Name \in DeclaredNames THEN Err.SourceExists
    ELSE IF sc.Name = "" THEN Err.UnnamedSource
    ELSE IF sc.Parent # <<>> /\ sc.Parent[1] \notin DeclaredNames
    THEN Err.ParentSourceNotFound
    ELSE IF Len(sc.Values) = 0 /\ sc.Parent = <<>> THEN Err.NoSourceValues
    ELSE ""

\* cSources.addSource, as enjinql.init calls it for each source of the
\* config until one fails
AddSourceConfig(sc) ==
    /\ addRet.err = ""
    /\ Len(declared) < MaxSchemaSources
    /\ IF AddSourceErr(sc) # ""
       THEN /\ addRet' = AddReturn(sc, AddSourceErr(sc))
            /\ UNCHANGED <<graphVars, declared>>
       ELSE \E g \in GraphAdd(SourceNode(sc)) :
               /\ primary' = g.primary
               /\ nodes' = g.nodes
               /\ lookup' = g.lookup
               /\ graphV' = g.V
               /\ graphE' = g.E
               /\ addRet' = AddReturn(sc, IF g.err # "" THEN g.err ELSE InitErr(sc))
               /\ declared' = IF g.err = "" /\ InitErr(sc) = ""
                              THEN Append(declared, sc) ELSE declared
    /\ UNCHANGED <<planVars, engineVars, compileVars, tableColumns, txVars,
                   ddlVars, syntaxVars, cfgCall, condCall, nameCall>>

NextSchema == \E sc \in SchemaSources : AddSourceConfig(sc)

SpecSchema == Init /\ [][NextSchema]_vars

\* the column of the schema that holds a linked value
LinkedColumn(value) == value.source \o "_" \o value.key

\* C22: the link edge of a linked value joins self.<source>_<key>, the column
\* the schema creates for the value, with source.<key>; the edge of a parent
\* joins parent.id with self.<parent>_id
C22_LinkJoinNamesColumn ==
    \A i \in 1..Len(declared) :
        LET self == declared[i]
        IN /\ self.Parent # <<>> =>
                /\ lookup[self.Name].parent.this =
                      newSourceTableKey(self.Name,
                                        self.Parent[1] \o "_" \o SourceIdKey)
                /\ lookup[self.Name].parent.other =
                      newSourceTableKey(self.Parent[1], SourceIdKey)
                /\ self.Parent[1] \o "_" \o SourceIdKey \in Range(SourceOrder(self))
           /\ \A j \in 1..Len(self.Values) :
                 (/\ self.Values[j].kind = "linked"
                  /\ self.Values[j].source \in DOMAIN lookup[self.Name].link) =>
                    LET join == lookup[self.Name].link[self.Values[j].source]
                    IN /\ LinkedColumn(self.Values[j]) \in Range(SourceOrder(self))
                       /\ {join.this, join.other} =
                             {newSourceTableKey(self.Name,
                                                LinkedColumn(self.Values[j])),
                              newSourceTableKey(self.Values[j].source,
                                                self.Values[j].key)}
                       /\ HasEdge(graphE, self.Name, self.Values[j].source)
                       /\ Edge(graphE, self.Name, self.Values[j].source).data = join

\* the sources a declared source names: its parent and the sources of its
\* linked values
Related(sc) ==
    Range(sc.Parent)
        \cup {sc.Values[j].source :
                j \in {k \in 1..Len(sc.Values) : sc.Values[k].kind = "linked"}}

\* a plan that succeeded and joins the two tables with each other
Relates(r, x, s) ==
    /\ r.err = ""
    /\ ~r.nil
    /\ \E k \in 1..Len(r.joins) :
          {r.joins[k].this.table, r.joins[k].other.table} = {x, s}

\* C26: for every source X and every source S that X names as its parent or
\* in a linked value, the planner succeeds on X and S and returns a plan
\* that joins the two
C26_RelatedPlanned ==
    addRet.err = "" =>
        \A i \in 1..Len(declared) : \A s \in Related(declared[i]) :
            \A req \in {<<declared[i].Name, s>>, <<s, declared[i].Name>>} :
                \A r \in plan(req) : Relates(r, declared[i].Name, s)

\* the config that New was given, as far as enjinql.init has read it
ConfigRead ==
    [Prefix |-> "be_eql", Sources |-> declared \o addRet.sc]

\* C27: when Validate accepts the config, its source names are distinct and
\* its unique and index keys are columns, addSource returns no error
C27_ValidConfigBuilds ==
    (/\ addRet.called
     /\ ConfigValidate(ConfigRead) = ""
     /\ \A i, j \in 1..Len(ConfigRead.Sources) :
           i # j => ConfigRead.Sources[i].Name # ConfigRead.Sources[j].Name
     /\ \A i \in 1..Len(ConfigRead.Sources) : InitErr(ConfigRead.Sources[i]) = "")
        => addRet.err = ""

\* C28: an Add that fails leaves the node list, the lookup and the primary of
\* the graph as they were
C28_AddAllOrNothing ==
    [][(addRet'.called /\ addRet'.err = Err.AddEdge) =>
          (nodes' = nodes /\ lookup' = lookup /\ primary' = primary)]_vars

(***************************************************************************)
(* cSources.formal and cSources.alias: the table name of a source          *)
(***************************************************************************)
\* the longest source name, in characters
MaxNameLen == 5

Underscore == "_"

\* a name is the sequence of its characters
NameChars == {"e", "p", Underscore}

\* the snake_case names: letters, with single underscores between them
IsSnakeCase(name) ==
    /\ Len(name) > 0
    /\ name[1] # Underscore
    /\ name[Len(name)] # Underscore
    /\ \A i \in 1..(Len(name) - 1) :
          ~(name[i] = Underscore /\ name[i + 1] = Underscore)

SnakeNames ==
    {name \in UNION {[1..n -> NameChars] : n \in 1..MaxNameLen} :
        IsSnakeCase(name)}

\* the names given in camel case
CamelNames == {<<"P">>, <<"e", "P">>}

\* the table prefixes, snake_cased by newSources: none, "e" and "b_e"
Prefixes == {<<>>, <<"e">>, <<"b", Underscore, "e">>}

\* strcase.ToSnake: an upper case letter becomes its lower case letter, after
\* an underscore when a lower case letter precedes it
RECURSIVE ToSnake(_)
ToSnake(name) ==
    IF name = <<>> THEN <<>>
    ELSE LET last == name[Len(name)]
             front == SubSeq(name, 1, Len(name) - 1)
         IN IF last = "P"
            THEN ToSnake(front)
                 \o (IF front # <<>> /\ front[Len(front)] \notin {"P", Underscore}
                     THEN <<Underscore>> ELSE <<>>)
                 \o <<"p">>
            ELSE ToSnake(front) \o <<last>>

\* strings.HasPrefix
HasPrefix(s, prefix) ==
    Len(prefix) <= Len(s) /\ SubSeq(s, 1, Len(prefix)) = prefix

\* strings.TrimPrefix
TrimPrefix(s, prefix) ==
    IF HasPrefix(s, prefix) THEN SubSeq(s, Len(prefix) + 1, Len(s)) ELSE s

\* strings.Split(s, "_")
RECURSIVE Split(_)
Split(s) ==
    IF \A i \in 1..Len(s) : s[i] # Underscore THEN <<s>>
    ELSE LET at == CHOOSE i \in 1..Len(s) :
                      s[i] = Underscore /\ \A j \in 1..(i - 1) : s[j] # Underscore
         IN <<SubSeq(s, 1, at - 1)>> \o Split(SubSeq(s, at + 1, Len(s)))

\* strings.Join(parts, "_")
RECURSIVE Join(_)
Join(parts) ==
    IF Len(parts) = 0 THEN <<>>
    ELSE IF Len(parts) = 1 THEN parts[1]
    ELSE parts[1] \o <<Underscore>> \o Join(Tail(parts))

\* cSources.formal, the loop over the parts of the prefix from the last one:
\* the first tail of the prefix that the name starts with is trimmed
RECURSIVE formalParts(_, _, _, _)
formalParts(prefix, parts, full, i) ==
    IF i < 1 THEN prefix \o <<Underscore>> \o full
    ELSE LET tmp == Join(SubSeq(parts, i, Len(parts))) \o <<Underscore>>
         IN IF HasPrefix(full, tmp)
            THEN prefix \o <<Underscore>> \o TrimPrefix(full, tmp)
            ELSE formalParts(prefix, parts, full, i - 1)

\* cSources.formal, without more
formal(prefix, name) ==
    LET full == ToSnake(name)
    IN IF prefix = <<>> THEN full
       ELSE IF full # prefix /\ HasPrefix(full, prefix \o <<Underscore>>)
       THEN full
       ELSE formalParts(prefix, Split(prefix), full, Len(Split(prefix)))

\* cSources.alias
alias(prefix, name) ==
    IF prefix = <<>> THEN ToSnake(name)
    ELSE TrimPrefix(formal(prefix, ToSnake(name)), prefix \o <<Underscore>>)

\* formal on a name, then alias and formal on what they return
CallFormal(prefix, name) ==
    /\ nameCall = <<>>
    /\ LET f == formal(prefix, name)
           a == alias(prefix, f)
       IN nameCall' = <<[op |-> "formal", prefix |-> prefix, names |-> <<name>>,
                          formal |-> <<f>>,
                          alias |-> a,
                          formalOfAlias |-> formal(prefix, a),
                          aliasAgain |-> alias(prefix, formal(prefix, a)),
                          formalAgain |-> formal(prefix, f)]>>
    /\ UNCHANGED <<graphVars, planVars, engineVars, compileVars, tableColumns,
                   txVars, ddlVars, syntaxVars, cfgCall, condCall, declared,
                   addRet>>

\* cSource.formal of two sources of one config
CallFormalBoth(prefix, name, other) ==
    /\ nameCall = <<>>
    /\ nameCall' = <<[op |-> "tables", prefix |-> prefix,
                       names |-> <<name, other>>,
                       formal |-> <<formal(prefix, name), formal(prefix, other)>>,
                       alias |-> <<>>, formalOfAlias |-> <<>>,
                       aliasAgain |-> <<>>, formalAgain |-> <<>>]>>
    /\ UNCHANGED <<graphVars, planVars, engineVars, compileVars, tableColumns,
                   txVars, ddlVars, syntaxVars, cfgCall, condCall, declared,
                   addRet>>

\* the shorter names, for the second source of a pair
ShortNames == {name \in SnakeNames : Len(name) + 2 <= MaxNameLen}

\* one call is made
NextNames ==
    \/ /\ nameCall = <<>>
       /\ \E prefix \in Prefixes, name \in SnakeNames \cup CamelNames :
             CallFormal(prefix, name)
    \/ /\ nameCall = <<>>
       /\ \E prefix \in Prefixes, name \in SnakeNames, other \in ShortNames :
             CallFormalBoth(prefix, name, other)

SpecNames == Init /\ [][NextNames]_vars

\* C24: for a table name f that formal produced, formal(alias(f)) is f and
\* alias(formal(alias(f))) is alias(f), and formal(f) is f
C24_FormalAliasRoundTrip ==
    (nameCall # <<>> /\ nameCall[1].op = "formal") =>
        /\ nameCall[1].formalOfAlias = nameCall[1].formal[1]
        /\ nameCall[1].aliasAgain = nameCall[1].alias
        /\ nameCall[1].formalAgain = nameCall[1].formal[1]

\* C30: two different snake_case source names have different table names
C30_FormalInjective ==
    (/\ nameCall # <<>>
     /\ nameCall[1].op = "tables"
     /\ nameCall[1].names[1] # nameCall[1].names[2])
        => nameCall[1].formal[1] # nameCall[1].formal[2]

====
